---- MODULE Spec2Model ----
(***************************************************************************)
(* code-health: the report aggregation pipeline (four tool adapters, the   *)
(* extractors, aggregateReports) and the change-triggered refresh loop in  *)
(* its two deployments: WatchManager with the report server of api.ts, and *)
(* the dashboard server of dashboard.ts.                                   *)
(***************************************************************************)
EXTENDS Integers, Sequences, FiniteSets, TLC

\* ------------------------------------------------------------------------
\* Bounds of the model
\* ------------------------------------------------------------------------
MaxCycles == 2
MaxTime == 1500
TickMs == 500
MaxClients == 1
MaxFaults == 0
MaxBursts == 2
MaxManual == 1

\* ------------------------------------------------------------------------
\* Program constants
\* ------------------------------------------------------------------------
WATCH_DEBOUNCE_MS == 750
CALLBACK_DEBOUNCE_MS == 1000
TOP_N == 50

Tools == {"eslint", "depcruise", "knip", "cloc"}

\* value of a missing report file (readReport returns null), of an unset
\* reference, and of an optional field that is undefined
Absent == [absent |-> TRUE]
Null == [null |-> TRUE]
None == -1

\* ------------------------------------------------------------------------
\* Paths and message texts
\* A path is a sequence of characters; String.prototype.endsWith compares
\* characters, not segments.
\* ------------------------------------------------------------------------
EndsWith(s, suffix) ==
  /\ Len(suffix) <= Len(s)
  /\ SubSeq(s, Len(s) - Len(suffix) + 1, Len(s)) = suffix

\* A message text is a sequence of tokens; a token is a word (n = None) or
\* a run of digits with its value n.
Word(w) == [w |-> w, n |-> None]
Num(n) == [w |-> "", n |-> n]
IsNum(tok) == tok.n /= None

\* indexes of the digit runs of a text, in order: message.match(/(\d+)/g)
NumIdx(text) == {i \in 1..Len(text) : IsNum(text[i])}

Min(S) == CHOOSE x \in S : \A y \in S : x <= y
Max(S) == CHOOSE x \in S : \A y \in S : y <= x

\* the k-th digit run of a text, or None
NthNum(text, k) ==
  LET idx == NumIdx(text)
      hit == {i \in idx : Cardinality({j \in idx : j <= i}) = k}
  IN IF hit = {} THEN None ELSE text[CHOOSE i \in hit : TRUE].n

\* parseInt(m.message.match(/\d+/)?.[0] || '0')
FirstNumOrZero(text) == IF NumIdx(text) = {} THEN 0 ELSE NthNum(text, 1)

\* message.match(/complexity of (\d+)/): the first place where the words
\* "complexity", "of" are followed by digits
ComplexityOf(text) ==
  LET hit == {i \in 1..Len(text) :
                /\ i + 2 <= Len(text)
                /\ text[i] = Word("complexity")
                /\ text[i + 1] = Word("of")
                /\ IsNum(text[i + 2])}
  IN IF hit = {} THEN None ELSE text[Min(hit) + 2].n

\* ------------------------------------------------------------------------
\* Sequence helpers
\* ------------------------------------------------------------------------
RECURSIVE SeqSum(_)
SeqSum(s) == IF s = <<>> THEN 0 ELSE Head(s) + SeqSum(Tail(s))

RECURSIVE FilterSeq(_, _)
\* the subsequence of s at the indexes of keep, in order
FilterSeq(s, keep) ==
  IF s = <<>> THEN <<>>
  ELSE LET rest == FilterSeq(SubSeq(s, 1, Len(s) - 1), keep)
       IN IF Len(s) \in keep THEN Append(rest, s[Len(s)]) ELSE rest

\* first index of s that satisfies the set of hits, or 0: Array.prototype.find
FirstIdx(hits) == IF hits = {} THEN 0 ELSE Min(hits)

\* a slice that keeps everything
Take_m(s, n) == s

\* Array.prototype.slice(0, n)
Take(s, n) == SubSeq(s, 1, IF Len(s) < n THEN Len(s) ELSE n)

\* Array.prototype.sort with a comparator that orders by a numeric key,
\* descending; the sort is stable, so equal keys keep their input order.
\* key is the sequence of keys of s.  Result: s permuted.
SortDescBy(s, key) ==
  LET rank(i) == Cardinality({j \in 1..Len(s) : key[j] > key[i]})
                 + Cardinality({j \in 1..Len(s) : key[j] = key[i] /\ j < i})
                 + 1
  IN [p \in 1..Len(s) |-> s[CHOOSE i \in 1..Len(s) : rank(i) = p]]

\* ------------------------------------------------------------------------
\* Tool reports (the JSON files of the reports directory)
\*   cloc:      [files: Seq [file, loc, code, comment, blank], error]
\*   eslint:    [results: Seq [filePath, messages: Seq [ruleId, line, message]], error]
\*   depcruise: [modules: Seq [source, dependencies: Seq [resolved]],
\*               violations: Seq [cycle], error]
\*   knip:      [files: Seq [file], exports: Seq [file, symbol], error]
\* error is the failure marker (the report's error field is set).
\* ------------------------------------------------------------------------

\* extractors.ts: extractLargestFiles
extractLargestFiles(clocReport) ==
  IF clocReport = Absent THEN <<>>
  ELSE LET files == clocReport.files
           sorted == SortDescBy(files, [i \in 1..Len(files) |-> files[i].loc])
           top == Take(sorted, TOP_N)
       IN [i \in 1..Len(top) |->
             [file |-> top[i].file, loc |-> top[i].loc, code |-> top[i].code,
              comment |-> top[i].comment, blank |-> top[i].blank]]

RECURSIVE MessagesOf(_)
\* every (result, message) pair of an ESLint report, results in order and
\* the messages of a result in order
MessagesOf(results) ==
  IF results = <<>> THEN <<>>
  ELSE LET r == Head(results)
       IN [i \in 1..Len(r.messages) |->
             [filePath |-> r.filePath, m |-> r.messages[i]]]
          \o MessagesOf(Tail(results))

\* extractors.ts: extractComplexityMetric
extractComplexityMetric(filePath, message) ==
  [file |-> filePath, line |-> message.line, ruleId |-> message.ruleId,
   metric |-> ComplexityOf(message.message), message |-> message.message]

\* extractors.ts: isMaxLinesViolation
isMaxLinesViolation(ruleId) ==
  ruleId = "max-lines" \/ ruleId = "max-lines-per-function"

\* extractors.ts: extractMaxLinesViolation (a missing number reads as 0; a
\* matched "0" is falsy only as the empty string, so it is kept)
extractMaxLinesViolation(filePath, message) ==
  LET v == NthNum(message.message, 1)
      l == NthNum(message.message, 2)
  IN [file |-> filePath,
      kind |-> IF message.ruleId = "max-lines" THEN "file" ELSE "function",
      value |-> IF v = None THEN 0 ELSE v,
      limit |-> IF l = None THEN 0 ELSE l]

\* localeCompare on the characters the model uses: punctuation before
\* letters, letters in alphabetical order; a proper prefix sorts first.
CharRank(c) ==
  CASE c = "." -> 0
    [] c = "/" -> 1
    [] c = "a" -> 2
    [] c = "b" -> 3
    [] c = "s" -> 4
    [] OTHER -> 5

RECURSIVE localeCompare(_, _)
localeCompare(a, b) ==
  IF a = <<>> /\ b = <<>> THEN 0
  ELSE IF a = <<>> THEN -1
  ELSE IF b = <<>> THEN 1
  ELSE IF CharRank(Head(a)) < CharRank(Head(b)) THEN -1
  ELSE IF CharRank(Head(a)) > CharRank(Head(b)) THEN 1
  ELSE localeCompare(Tail(a), Tail(b))

\* the comparator of complexFunctions.sort: metrics are compared only when
\* both are truthy (defined and not 0), else the file names are compared
Truthy(n) == n /= None /\ n /= 0
ComplexityCompare(a, b) ==
  IF Truthy(a.metric) /\ Truthy(b.metric) THEN b.metric - a.metric
  ELSE localeCompare(a.file, b.file)

\* Array.prototype.sort (V8, arrays shorter than 64): the leading run is
\* counted (and reversed when strictly descending), the rest is inserted by
\* binary insertion.  Written for ComplexityCompare, which is not a
\* consistent order, so the result depends on the comparisons made.
RECURSIVE RunEnd(_, _, _)
RunEnd(a, idx, desc) ==
  IF idx > Len(a) THEN idx - 1
  ELSE LET order == ComplexityCompare(a[idx], a[idx - 1])
       IN IF (desc /\ order >= 0) \/ (~desc /\ order < 0) THEN idx - 1
          ELSE RunEnd(a, idx + 1, desc)

ReverseRange(a, n) ==
  [i \in 1..Len(a) |-> IF i <= n THEN a[n + 1 - i] ELSE a[i]]

RECURSIVE BinarySearch(_, _, _, _)
BinarySearch(a, pivot, left, right) ==
  IF left >= right THEN left
  ELSE LET mid == left + ((right - left) \div 2)
       IN IF ComplexityCompare(pivot, a[mid]) < 0
          THEN BinarySearch(a, pivot, left, mid)
          ELSE BinarySearch(a, pivot, mid + 1, right)

RECURSIVE BinaryInsertionSort(_, _)
\* a[1..start-1] is sorted; insert a[start..Len(a)]
BinaryInsertionSort(a, start) ==
  IF start > Len(a) THEN a
  ELSE LET pivot == a[start]
           left == BinarySearch(a, pivot, 1, start)
           moved == [i \in 1..Len(a) |->
                       IF i < left \/ i > start THEN a[i]
                       ELSE IF i = left THEN pivot
                       ELSE a[i - 1]]
       IN BinaryInsertionSort(moved, start + 1)

SortComplexFunctions(a) ==
  IF Len(a) < 2 THEN a
  ELSE LET desc == ComplexityCompare(a[2], a[1]) < 0
           run == RunEnd(a, 3, desc)
           made == IF desc THEN ReverseRange(a, run) ELSE a
       IN BinaryInsertionSort(made, run + 1)

\* extractors.ts: extractComplexityIssues
extractComplexityIssues(eslintReport) ==
  IF eslintReport = Absent
  THEN [complexFunctions |-> <<>>, maxLineOffenders |-> <<>>]
  ELSE LET all == MessagesOf(eslintReport.results)
           cplx == FilterSeq(all, {i \in 1..Len(all) :
                     all[i].m.ruleId = "sonarjs/cognitive-complexity"})
           lines == FilterSeq(all, {i \in 1..Len(all) :
                     /\ all[i].m.ruleId /= "sonarjs/cognitive-complexity"
                     /\ isMaxLinesViolation(all[i].m.ruleId)})
           cf == [i \in 1..Len(cplx) |->
                    extractComplexityMetric(cplx[i].filePath, cplx[i].m)]
           mo == [i \in 1..Len(lines) |->
                    extractMaxLinesViolation(lines[i].filePath, lines[i].m)]
       IN [complexFunctions |-> SortComplexFunctions(cf),
           maxLineOffenders |->
             SortDescBy(mo, [i \in 1..Len(mo) |-> mo[i].value])]

\* extractors.ts: extractCircularDependencies.  The key of a cycle is its
\* members sorted and joined; the first cycle of each key is kept, in the
\* order of first appearance (Map insertion order).
CodeUnit(c) ==
  CASE c = "." -> 46
    [] c = "/" -> 47
    [] c = "a" -> 97
    [] c = "b" -> 98
    [] c = "s" -> 115
    [] OTHER -> 255

RECURSIVE CodeUnitLess(_, _)
\* the default order of Array.prototype.sort on strings
CodeUnitLess(a, b) ==
  IF b = <<>> THEN FALSE
  ELSE IF a = <<>> THEN TRUE
  ELSE IF CodeUnit(Head(a)) /= CodeUnit(Head(b))
       THEN CodeUnit(Head(a)) < CodeUnit(Head(b))
  ELSE CodeUnitLess(Tail(a), Tail(b))

SortedMembers(cycle) ==
  LET n == Len(cycle)
      rank(i) == Cardinality({j \in 1..n : CodeUnitLess(cycle[j], cycle[i])})
                 + Cardinality({j \in 1..n : cycle[j] = cycle[i] /\ j < i}) + 1
  IN [p \in 1..n |-> cycle[CHOOSE i \in 1..n : rank(i) = p]]

extractCircularDependencies(depCruiseReport) ==
  IF depCruiseReport = Absent THEN <<>>
  ELSE LET vs == depCruiseReport.violations
           has == {i \in 1..Len(vs) : Len(vs[i].cycle) > 0}
           first == {i \in has : \A j \in has :
                       j < i => SortedMembers(vs[j].cycle) /= SortedMembers(vs[i].cycle)}
           kept == FilterSeq(vs, first)
       IN [i \in 1..Len(kept) |-> [paths |-> kept[i].cycle]]

\* extractors.ts: extractDeadCode
extractDeadCode(knipReport) ==
  IF knipReport = Absent THEN <<>>
  ELSE [i \in 1..Len(knipReport.files) |->
          [file |-> knipReport.files[i].file, symbol |-> "", kind |-> "file"]]
       \o [i \in 1..Len(knipReport.exports) |->
          [file |-> knipReport.exports[i].file,
           symbol |-> knipReport.exports[i].symbol, kind |-> "export"]]

\* aggregate.ts: countFunctionsInFile.  lengths holds, for each line of the
\* file that looks like a function declaration, the estimate drawn for it:
\* Math.min(50, Math.max(5, Math.floor(Math.random() * 15) + 10)).  A file
\* that is missing or has no such line gives the empty sequence.
EstimatedLength(r) ==
  LET v == r + 10
      lo == IF v < 5 THEN 5 ELSE v
  IN IF lo > 50 THEN 50 ELSE lo

\* Math.round of a quotient of naturals
RoundDiv(a, b) == (2 * a + b) \div (2 * b)

countFunctionsInFile(draws) ==
  LET lengths == [i \in 1..Len(draws) |-> EstimatedLength(draws[i])]
  IN IF Len(draws) = 0
     THEN [functions |-> 0, avgLength |-> 0, maxLength |-> 0]
     ELSE [functions |-> Len(draws),
           avgLength |-> RoundDiv(SeqSum(lengths), Len(lengths)),
           maxLength |-> Max({lengths[i] : i \in 1..Len(lengths)})]

ComplexityRules == {"complexity", "cognitive-complexity", "sonarjs/cognitive-complexity"}

\* aggregate.ts: enhanceFileMetrics, for one file.  fileDraws is what
\* countFunctionsInFile sees and draws for the file.
enhanceOne(file, eslintReport, depCruiseReport, fileDraws) ==
  LET fd == countFunctionsInFile(fileDraws)
      res == IF eslintReport = Absent THEN <<>> ELSE eslintReport.results
      ri == FirstIdx({i \in 1..Len(res) : EndsWith(res[i].filePath, file.file)})
      msgs == IF ri = 0 THEN <<>> ELSE res[ri].messages
      complexities == {FirstNumOrZero(msgs[i].message) :
                         i \in {j \in 1..Len(msgs) : msgs[j].ruleId \in ComplexityRules}}
                      \ {0}
      mods == IF depCruiseReport = Absent THEN <<>> ELSE depCruiseReport.modules
      mi == FirstIdx({i \in 1..Len(mods) : EndsWith(mods[i].source, file.file)})
      dependents == {i \in 1..Len(mods) :
                       \E k \in 1..Len(mods[i].dependencies) :
                         EndsWith(mods[i].dependencies[k].resolved, file.file)}
  IN [file |-> file.file, loc |-> file.loc, code |-> file.code,
      comment |-> file.comment, blank |-> file.blank,
      functions |-> IF fd.functions > 0 THEN fd.functions ELSE None,
      avgFunctionLength |-> IF fd.functions > 0 THEN fd.avgLength ELSE None,
      maxFunctionLength |-> IF fd.functions > 0 THEN fd.maxLength ELSE None,
      complexity |-> IF complexities = {} THEN None ELSE Max(complexities),
      dependencies |-> IF mi = 0 THEN None ELSE Len(mods[mi].dependencies),
      dependents |-> IF mi = 0 THEN None ELSE Cardinality(dependents)]

\* aggregate.ts: enhanceFileMetrics.  draws maps a file name to what
\* countFunctionsInFile draws for it.
enhanceFileMetrics(files, eslintReport, depCruiseReport, draws) ==
  [i \in 1..Len(files) |->
     enhanceOne(files[i], eslintReport, depCruiseReport,
                IF files[i].file \in DOMAIN draws THEN draws[files[i].file] ELSE <<>>)]

\* aggregate.ts: getLanguageFromExt.  A language is [name, ext]: the name of
\* the table for an extension that is in it, else no name and the extension
\* itself, which the code puts in upper case.
Language(name, ext) == [name |-> name, ext |-> ext]

getLanguageFromExt(ext) ==
  CASE ext \in {<<"t", "s">>, <<"t", "s", "x">>} -> Language("TypeScript", <<>>)
    [] ext \in {<<"j", "s">>, <<"j", "s", "x">>} -> Language("JavaScript", <<>>)
    [] ext = <<"j", "s", "o", "n">> -> Language("JSON", <<>>)
    [] ext = <<"c", "s", "s">> -> Language("CSS", <<>>)
    [] ext = <<"s", "c", "s", "s">> -> Language("SCSS", <<>>)
    [] ext = <<"h", "t", "m", "l">> -> Language("HTML", <<>>)
    [] ext = <<"m", "d">> -> Language("Markdown", <<>>)
    [] ext \in {<<"y", "m", "l">>, <<"y", "a", "m", "l">>} -> Language("YAML", <<>>)
    [] ext \in {<<"s", "h">>, <<"b", "a", "s", "h">>} -> Language("Shell", <<>>)
    [] ext = <<"p", "y">> -> Language("Python", <<>>)
    [] ext = <<"g", "o">> -> Language("Go", <<>>)
    [] ext = <<"r", "s">> -> Language("Rust", <<>>)
    [] ext = <<"j", "a", "v", "a">> -> Language("Java", <<>>)
    [] ext \in {<<"c", "p", "p">>, <<"h", "p", "p">>} -> Language("C++", <<>>)
    [] ext = <<"c">> -> Language("C", <<>>)
    [] ext = <<"h">> -> Language("C/C++", <<>>)
    [] OTHER -> Language("", ext)

\* file.file.split('.').pop() || 'unknown'
ExtensionOf(p) ==
  LET dots == {i \in 1..Len(p) : p[i] = "."}
      ext == IF dots = {} THEN p ELSE SubSeq(p, Max(dots) + 1, Len(p))
  IN IF ext = <<>> THEN <<"u", "n", "k", "n", "o", "w", "n">> ELSE ext

\* aggregate.ts: calculateCodebaseComposition.  files is the enhanced
\* largestFiles list that aggregateReports hands over.  Null stands for
\* undefined; a percentage of 0/0 is None.
calculateCodebaseComposition(clocReport, files) ==
  IF clocReport = Absent \/ Len(files) = 0 THEN Null
  ELSE LET n == Len(files)
           locs == [i \in 1..n |-> files[i].loc]
           totalLines == SeqSum(locs)
           descending == SortDescBy(locs, locs)
           langOf(i) == getLanguageFromExt(ExtensionOf(files[i].file))
           firsts == {i \in 1..n : \A j \in 1..(i - 1) : langOf(j) /= langOf(i)}
           langs == FilterSeq([i \in 1..n |-> langOf(i)], firsts)
           linesOf(l) == SeqSum([i \in 1..n |-> IF langOf(i) = l THEN files[i].code ELSE 0])
           totalLangLines == SeqSum([i \in 1..n |-> files[i].code])
           entries == [k \in 1..Len(langs) |->
                         [name |-> langs[k],
                          files |-> Cardinality({i \in 1..n : langOf(i) = langs[k]}),
                          lines |-> linesOf(langs[k]),
                          percentage |-> IF totalLangLines = 0 THEN None
                                         ELSE RoundDiv(100 * linesOf(langs[k]), totalLangLines)]]
       IN [totalFiles |-> n,
           totalLines |-> totalLines,
           codeLines |-> SeqSum([i \in 1..n |-> files[i].code]),
           commentLines |-> SeqSum([i \in 1..n |-> files[i].comment]),
           blankLines |-> SeqSum([i \in 1..n |-> files[i].blank]),
           avgFileSize |-> RoundDiv(totalLines, n),
           medianFileSize |-> descending[n - (n \div 2)],
           languages |-> SortDescBy(entries, [k \in 1..Len(entries) |-> entries[k].lines])]

\* an aggregation that gives up the dead-code slice when the line count
\* report is missing
aggregateReports_m(dir, time, draws) ==
  LET issues == extractComplexityIssues(dir["eslint"])
      enhancedFiles == enhanceFileMetrics(extractLargestFiles(dir["cloc"]),
                                          dir["eslint"], dir["depcruise"], draws)
  IN [largestFiles |-> enhancedFiles,
      complexFunctions |-> issues.complexFunctions,
      maxLineOffenders |-> issues.maxLineOffenders,
      cycles |-> extractCircularDependencies(dir["depcruise"]),
      deadCode |-> IF dir["cloc"] = Absent THEN <<>> ELSE extractDeadCode(dir["knip"]),
      composition |-> calculateCodebaseComposition(dir["cloc"], enhancedFiles),
      generatedAt |-> time]

\* aggregate.ts: aggregateReports, the Snapshot it builds and returns.
\* dir is the reports directory (readReport gives Absent for a missing
\* file), time is new Date() at the call.
aggregateReports(dir, time, draws) ==
  LET issues == extractComplexityIssues(dir["eslint"])
      enhancedFiles == enhanceFileMetrics(extractLargestFiles(dir["cloc"]),
                                          dir["eslint"], dir["depcruise"], draws)
  IN [largestFiles |-> enhancedFiles,
      complexFunctions |-> issues.complexFunctions,
      maxLineOffenders |-> issues.maxLineOffenders,
      cycles |-> extractCircularDependencies(dir["depcruise"]),
      deadCode |-> extractDeadCode(dir["knip"]),
      composition |-> calculateCodebaseComposition(dir["cloc"], enhancedFiles),
      generatedAt |-> time]

\* ========================================================================
\* The refresh loop
\* ========================================================================
VARIABLES
  mode,            \* which server runs: "watch" (WatchManager + api.ts) or "dashboard"
  env,             \* what each external tool does on this project when it is run
  now,             \* the clock, in ms
  cyc,             \* the analysis cycles started so far, by number
  reports,         \* the reports directory: report name -> content or Absent
  toolRun,         \* history: what the tool did in the run that wrote reports[t]
  timers,          \* the timeouts set and not yet fired or cleared
  debounceTimer,   \* the handle kept by the debouncing code, or Null
  watching,        \* the chokidar watcher: "no" (not created), "open" or "closed"
  isRunning,       \* WatchManager.isRunning
  latest,          \* dashboard: latestResults.current
  analysisPromise, \* dashboard: the cycle whose promise is kept, or 0
  waiting,         \* dashboard: GET /api/stats requests suspended on a promise
  lastResp,        \* the last answer given to GET /api/stats
  socks,           \* the WebSocket clients: open?, last message received
  outputs,         \* history: every Snapshot an aggregateReports call returned
  published,       \* history: the Snapshot of the last cycle that succeeded
  burst,           \* history: number of bursts of change events so far
  lastEventAt,     \* history: time of the last change event that set a timeout
  voided,          \* history: bursts cancelled by stop() or fired into a running cycle
  pendingChange,   \* history: a change event arrived during a cycle, none started since
  aggIn,           \* aggregation alone: the reports directory given to it
  aggRun,          \* aggregation alone: what the tool did when its adapter wrote aggIn[t]
  aggFns,          \* aggregation alone: lines of file a that look like a function
  aggOut,          \* aggregation alone: the Snapshots returned (all reports, one absent)
  lastDetail,      \* the last answer given to GET /api/file-detail
  answers          \* history: condition, status and error of every such answer

aggVars == <<aggIn, aggRun, aggFns, aggOut>>

detailVars == <<lastDetail, answers>>

\* the print command (code-health print), a process of its own
VARIABLES
  printConfig,     \* print: the thresholds of the configuration
  printLint,       \* print: the results ESLint gives on this project
  printDir,        \* print: the reports directory of the run
  printPhase,      \* print: "idle", "adapters" (awaiting Promise.all) or "exited"
  printStats,      \* print: the Snapshot that was printed, or Null
  exitCode         \* print: the exit code of the process, None while it runs

printVars == <<printConfig, printLint, printDir, printPhase, printStats, exitCode>>

\* runAnalysis calls on one project root, whoever makes them
VARIABLES
  projVersion,     \* runs: the state of the project's files, counted by changes
  sharedDir,       \* runs: report name -> the call that wrote it and what it saw
  runs             \* runs: the runAnalysis calls made so far, by number

runVars == <<projVersion, sharedDir, runs>>

\* the events of WatchManager, an EventEmitter
VARIABLES
  emitted          \* events: for every cycle, the events emitted and whether a listener threw

emitVars == <<emitted>>

\* dashboard servers started by the dashboard command and by the MCP handlers
VARIABLES
  dash,            \* servers: every server startDashboardServer returned, by number
  dashboardServer  \* servers: handlers.ts: the server the MCP handlers keep, or 0

stopVars == <<dash, dashboardServer>>

\* dashboard.ts: startServerWithRetry
VARIABLES
  configPort,      \* listen: config.port
  actualPort,      \* listen: the port of the next attempt
  retries,         \* listen: the attempts that found the address in use
  attempts,        \* listen, history: the port and the outcome of every listen call
  listenResult     \* listen: "trying", or how the function ended and with what

listenVars == <<configPort, actualPort, retries, attempts, listenResult>>

\* the UI hook useWebSocket
VARIABLES
  sockets,             \* hook: every WebSocket the hook created, by number
  wsRef,               \* hook: wsRef.current, a socket number or 0
  reconnectTimeoutRef, \* hook: reconnectTimeoutRef.current, a timeout number or 0
  hookTimers,          \* hook: the timeouts set and not yet fired or cleared
  timeoutsSet,         \* hook, history: the number of timeouts set so far
  disconnected         \* hook, history: disconnect() has been called

hookVars == <<sockets, wsRef, reconnectTimeoutRef, hookTimers, timeoutsSet, disconnected>>

cmdVars == <<printVars, runVars, emitVars, stopVars, listenVars, hookVars>>

loopVars == <<mode, env, now, cyc, reports, toolRun, timers, debounceTimer, watching,
              isRunning, latest, analysisPromise, waiting, lastResp, socks,
              outputs, published, burst, lastEventAt, voided, pendingChange>>

\* everything but the variables of one command
outsidePrint == <<loopVars, aggVars, detailVars, runVars, emitVars, stopVars, listenVars, hookVars>>
outsideRuns == <<loopVars, aggVars, detailVars, printVars, emitVars, stopVars, listenVars, hookVars>>
outsideStop == <<loopVars, aggVars, detailVars, printVars, runVars, emitVars, listenVars, hookVars>>
outsideListen == <<loopVars, aggVars, detailVars, printVars, runVars, emitVars, stopVars, hookVars>>
outsideHook == <<loopVars, aggVars, detailVars, printVars, runVars, emitVars, stopVars, listenVars>>
\* everything runAnalysis of WatchManager leaves alone when only its flag
\* and its events are looked at
outsideEmit == <<mode, env, now, cyc, reports, toolRun, timers, debounceTimer, watching,
                 latest, analysisPromise, waiting, lastResp, socks, outputs, published,
                 burst, lastEventAt, voided, pendingChange, aggVars, detailVars,
                 printVars, runVars, stopVars, listenVars, hookVars>>

CycleIds == 1..MaxCycles
Clients == 1..MaxClients
ReportNames == Tools \cup {"aggregated"}

\* runKnip runs to its end when it is called; runCloc and runDepCruise await
\* only promises that are already settled (detectTsConfig, runNativeCloc and
\* runManualLineCount do their work with existsSync/execSync), so they finish
\* in the microtasks of the turn that started them.  Only ESLint.lintFiles
\* gives the event loop back.
SyncTools == {"depcruise", "knip", "cloc"}

\* what an external tool can do in one run
ToolOutcomes(t) ==
  CASE t = "eslint" -> {"ok", "fallbackFail", "error"}
    [] t = "depcruise" -> {"ok", "fail"}
    [] t = "knip" -> {"ok", "text", "nofile"}
    [] t = "cloc" -> {"ok", "fail"}

ToolFailed(t, out) == out /= "ok"

\* the data of a run that worked, in the loop: one small project
FileA == <<"a">>
FileB == <<"b">>
\* other paths: ba, b/a, s/a
FileBA == <<"b", "a">>
FileInB == <<"b", "/", "a">>
FileInS == <<"s", "/", "a">>

\* a message of sonarjs/cognitive-complexity
ComplexityMessage(n) ==
  [ruleId |-> "sonarjs/cognitive-complexity", line |-> 1,
   message |-> <<Word("complexity"), Word("of"), Num(n)>>]

GoodData(t) ==
  CASE t = "eslint" ->
         [results |-> << [filePath |-> <<"/", "a">>,
                          messages |-> << [ruleId |-> "sonarjs/cognitive-complexity",
                                           line |-> 1,
                                           message |-> <<Word("complexity"), Word("of"), Num(18)>>] >>] >>]
    [] t = "depcruise" ->
         [modules |-> << [source |-> FileA, dependencies |-> << [resolved |-> FileB] >>] >>,
          violations |-> << [cycle |-> <<FileA, FileB, FileA>>] >>]
    [] t = "knip" ->
         [files |-> << [file |-> FileB] >>, exports |-> <<>>]
    [] t = "cloc" ->
         [files |-> << [file |-> FileA, loc |-> 3, code |-> 2, comment |-> 1, blank |-> 0] >>]

EmptyData(t) ==
  CASE t = "eslint" -> [results |-> <<>>]
    [] t = "depcruise" -> [modules |-> <<>>, violations |-> <<>>]
    [] t = "knip" -> [files |-> <<>>, exports |-> <<>>]
    [] t = "cloc" -> [files |-> <<>>]

Report(data, marked) == [f \in DOMAIN data \cup {"error"} |->
                           IF f = "error" THEN marked ELSE data[f]]

IsEmptyReport(t, r) == r = Report(EmptyData(t), r.error)

\* The reports an adapter writes in one run, in the order written; the last
\* one is what the run leaves in the directory.
\* cloc.ts: runCloc
runCloc(out, data) ==
  IF out = "ok" THEN << Report(data, FALSE) >>
  ELSE << Report(EmptyData("cloc"), TRUE) >>

\* depcruise.ts: runDepCruise.  After the report is written the summary line
\* reads cycles.length; no cycles is in scope there, so the try block ends
\* in a ReferenceError and the catch block writes the failure report.
runDepCruise(out, data) ==
  IF out = "ok" THEN << Report(data, FALSE), Report(EmptyData("depcruise"), TRUE) >>
  ELSE << Report(EmptyData("depcruise"), TRUE) >>

\* knip.ts: runKnip.  Output that is not JSON goes through
\* parseKnipTextOutput; textData is what that finds in it.
runKnip(out, data, textData) ==
  CASE out = "ok" -> << Report(data, FALSE) >>
    [] out = "text" -> << Report(textData, FALSE) >>
    [] OTHER -> << Report(EmptyData("knip"), TRUE) >>

\* eslint.ts: runEslint with runEslintWithFallback: when the fallback
\* configuration fails as well, the results are [] and the run goes on.
runEslint(out, data) ==
  CASE out = "ok" -> << Report(data, FALSE) >>
    [] out = "fallbackFail" -> << Report(EmptyData("eslint"), FALSE) >>
    [] OTHER -> << Report(EmptyData("eslint"), TRUE) >>

Adapter(t, out) ==
  CASE t = "eslint" -> runEslint(out, GoodData(t))
    [] t = "depcruise" -> runDepCruise(out, GoodData(t))
    [] t = "knip" -> runKnip(out, GoodData(t), EmptyData(t))
    [] t = "cloc" -> runCloc(out, GoodData(t))

Last(s) == s[Len(s)]

NewCycle == [phase |-> "new", ad |-> [t \in Tools |-> "idle"], trigger |-> "none",
             startedAt |-> 0, burst |-> 0, many |-> FALSE, after |-> {}]

Active == {c \in CycleIds : cyc[c].phase = "running"}
Started == {c \in CycleIds : cyc[c].phase /= "new"}
NextId == Cardinality(Started) + 1

NoTimer == Null
\* a cycle that no change event asked for
NoBurst == [at |-> 0, burst |-> 0, many |-> FALSE, during |-> {}]
NoDraws == [f \in {FileA, FileB} |-> <<>>]

\* paths.ts: cleanReportsDir
cleanReportsDir(dir) == [n \in ReportNames |-> Absent]

\* the directory after the adapters of SyncTools ran with outcomes outs
AfterSyncAdapters(dir, outs) ==
  [n \in ReportNames |-> IF n \in SyncTools THEN Last(Adapter(n, outs[n])) ELSE dir[n]]

\* setTimeout(..., 750) of handleChange, setTimeout(callback, 1000) of
\* watchForChanges
DebounceDelay(m) == IF m = "watch" THEN WATCH_DEBOUNCE_MS ELSE CALLBACK_DEBOUNCE_MS

\* a handleChange that forgets clearTimeout
ClearTimeout_m(ts, handle) == ts

\* clearTimeout
ClearTimeout(ts, handle) == ts \ {handle}

\* a join that waits for the first adapter only (Promise.race)
JoinReady_m(c) == \E t \in Tools : cyc[c].ad[t] = "fulfilled"

\* Promise.all over the four adapter promises of a cycle
JoinReady(c) == \A t \in Tools : cyc[c].ad[t] = "fulfilled"

\* a Snapshot stamped with the time its cycle started
GeneratedAt_m(c) == cyc[c].startedAt

\* new Date().toISOString() in aggregateReports
GeneratedAt(c) == now

\* a publication that copies the slices into the Snapshot already there and
\* leaves its generatedAt
Publish_m(old, results) ==
  IF old = Null THEN results ELSE [results EXCEPT !.generatedAt = old.generatedAt]

\* latestResults.current = results
Publish(old, results) == results

\* The start of a cycle: the calls of the four adapters inside Promise.all
\* and everything they do before ESLint yields.
StartCycle(c, trig, tm, clean, outs) ==
  /\ c \in CycleIds
  /\ cyc' = [cyc EXCEPT ![c] =
               [phase |-> "running",
                ad |-> [t \in Tools |-> IF t \in SyncTools THEN "fulfilled" ELSE "running"],
                trigger |-> trig, startedAt |-> now, burst |-> tm.burst,
                many |-> tm.many, after |-> tm.during]]
  /\ reports' = AfterSyncAdapters(IF clean THEN cleanReportsDir(reports) ELSE reports, outs)
  /\ toolRun' = [t \in Tools |-> IF t \in SyncTools THEN outs[t]
                                 ELSE IF clean THEN "none" ELSE toolRun[t]]
  /\ pendingChange' = FALSE

\* the projects of the loop: at most MaxFaults of the tools fail on them
Faults(outs) == Cardinality({t \in DOMAIN outs : ToolFailed(t, outs[t])})
\* a project on which ESLint.lintFiles never settles: runEslint awaits it
\* with no timer beside it
HangEnv == [t \in Tools |-> IF t = "eslint" THEN "hang" ELSE "ok"]
Envs == {o \in [Tools -> {"ok", "fail", "text", "nofile", "fallbackFail", "error"}] :
           /\ \A t \in Tools : o[t] \in ToolOutcomes(t)
           /\ Faults(o) <= MaxFaults}
        \cup {HangEnv}

\* the outcomes of the tools that run to their end inside the Promise.all call
SyncOutcomes == {[t \in SyncTools |-> env[t]]}

NoAgg == [all |-> Null, part |-> Null, without |-> "none"]

AggIdle ==
  /\ aggIn = [t \in Tools |-> Absent]
  /\ aggRun = [t \in Tools |-> "none"]
  /\ aggFns = 0
  /\ aggOut = NoAgg

DetailIdle ==
  /\ lastDetail = Null
  /\ answers = {}

PrintIdle ==
  /\ printConfig = Null
  /\ printLint = Null
  /\ printDir = [n \in ReportNames |-> Absent]
  /\ printPhase = "idle"
  /\ printStats = Null
  /\ exitCode = None

RunsIdle ==
  /\ projVersion = 1
  /\ sharedDir = [n \in ReportNames |-> Absent]
  /\ runs = <<>>

EmitIdle ==
  /\ emitted = <<>>

StopIdle ==
  /\ dash = <<>>
  /\ dashboardServer = 0

ListenIdle ==
  /\ configPort = 0
  /\ actualPort = 0
  /\ retries = 0
  /\ attempts = <<>>
  /\ listenResult = [how |-> "idle", port |-> 0]

HookIdle ==
  /\ sockets = <<>>
  /\ wsRef = 0
  /\ reconnectTimeoutRef = 0
  /\ hookTimers = {}
  /\ timeoutsSet = 0
  /\ disconnected = FALSE

CmdIdle ==
  /\ PrintIdle
  /\ RunsIdle
  /\ EmitIdle
  /\ StopIdle
  /\ ListenIdle
  /\ HookIdle

LoopInit ==
  /\ now = 0
  /\ cyc = [c \in CycleIds |-> NewCycle]
  /\ reports = [n \in ReportNames |-> Absent]
  /\ toolRun = [t \in Tools |-> "none"]
  /\ timers = {}
  /\ debounceTimer = NoTimer
  /\ watching = "no"
  /\ isRunning = FALSE
  /\ latest = Null
  /\ analysisPromise = 0
  /\ waiting = {}
  /\ lastResp = Null
  /\ socks = [k \in Clients |-> [open |-> FALSE, got |-> Null]]
  /\ outputs = {}
  /\ published = Null
  /\ burst = 0
  /\ lastEventAt = 0
  /\ voided = {}
  /\ pendingChange = FALSE

Init ==
  /\ mode \in {"watch", "dashboard"}
  /\ env \in Envs
  /\ LoopInit
  /\ AggIdle
  /\ DetailIdle
  /\ CmdIdle

\* time passes
Tick ==
  /\ now + TickMs <= MaxTime
  /\ now' = now + TickMs
  /\ UNCHANGED <<cmdVars, detailVars, aggVars, mode, env, cyc, reports, toolRun, timers, debounceTimer, watching,
                 isRunning, latest, analysisPromise, waiting, lastResp, socks,
                 outputs, published, burst, lastEventAt, voided, pendingChange>>

\* dashboard.ts: startDashboardServer: the first updateAnalysis() and the watcher
StartDashboardServer ==
  /\ mode = "dashboard"
  /\ Started = {}
  /\ \E outs \in SyncOutcomes : StartCycle(1, "startup", NoBurst, TRUE, outs)
  /\ analysisPromise' = 1
  /\ watching' = "open"
  /\ UNCHANGED <<cmdVars, detailVars, aggVars, mode, env, now, timers, debounceTimer, isRunning, latest, waiting,
                 lastResp, socks, outputs, published, burst, lastEventAt, voided>>

\* watch.ts: WatchManager.start; a manager is started once
WmStart ==
  /\ mode = "watch"
  /\ watching = "no"
  /\ watching' = "open"
  /\ UNCHANGED <<cmdVars, detailVars, aggVars, mode, env, now, cyc, reports, toolRun, timers, debounceTimer,
                 isRunning, latest, analysisPromise, waiting, lastResp, socks,
                 outputs, published, burst, lastEventAt, voided, pendingChange>>

\* watch.ts: WatchManager.stop
WmStop ==
  /\ mode = "watch"
  /\ watching = "open"
  /\ watching' = "closed"
  /\ timers' = ClearTimeout(timers, debounceTimer)
  /\ debounceTimer' = NoTimer
  /\ voided' = IF debounceTimer \in timers THEN voided \cup {debounceTimer.burst} ELSE voided
  /\ UNCHANGED <<cmdVars, detailVars, aggVars, mode, env, now, cyc, reports, toolRun, isRunning, latest,
                 analysisPromise, waiting, lastResp, socks, outputs, published,
                 burst, lastEventAt, pendingChange>>

\* A due timeout runs before a later file event is delivered.
NoneOverdue == \A tm \in timers : now <= tm.at

\* the timeout a change event sets at this moment
NewTimeout ==
  LET armed == debounceTimer \in timers
  IN [at |-> now + DebounceDelay(mode),
      burst |-> IF armed THEN debounceTimer.burst ELSE burst + 1,
      many |-> armed,
      during |-> IF armed THEN debounceTimer.during \cup Active ELSE Active]

SetDebounce ==
  /\ NewTimeout.burst <= MaxBursts
  /\ timers' = ClearTimeout(timers, debounceTimer) \cup {NewTimeout}
  /\ debounceTimer' = NewTimeout
  /\ burst' = NewTimeout.burst
  /\ lastEventAt' = now
  /\ pendingChange' = (pendingChange \/ Active /= {})

\* watch.ts: WatchManager.handleChange while an analysis runs: the event is skipped
WmChangeSkipped ==
  /\ mode = "watch" /\ watching = "open" /\ NoneOverdue
  /\ isRunning
  /\ pendingChange' = TRUE
  /\ UNCHANGED <<cmdVars, detailVars, aggVars, mode, env, now, cyc, reports, toolRun, timers, debounceTimer, watching,
                 isRunning, latest, analysisPromise, waiting, lastResp, socks,
                 outputs, published, burst, lastEventAt, voided>>

\* watch.ts: WatchManager.handleChange otherwise
WmChange ==
  /\ mode = "watch" /\ watching = "open" /\ NoneOverdue
  /\ ~isRunning
  /\ SetDebounce
  /\ UNCHANGED <<cmdVars, detailVars, aggVars, mode, env, now, cyc, reports, toolRun, watching, isRunning, latest,
                 analysisPromise, waiting, lastResp, socks, outputs, published, voided>>

\* watch.ts: watchForChanges.debouncedCallback
DebouncedCallback ==
  /\ mode = "dashboard" /\ watching = "open" /\ NoneOverdue
  /\ SetDebounce
  /\ UNCHANGED <<cmdVars, detailVars, aggVars, mode, env, now, cyc, reports, toolRun, watching, isRunning, latest,
                 analysisPromise, waiting, lastResp, socks, outputs, published, voided>>

Due(tm) == tm \in timers /\ now >= tm.at

\* watch.ts: the timeout of handleChange calls runAnalysis, which returns at
\* once when an analysis is running
WmTimerSkipped ==
  /\ mode = "watch"
  /\ \E tm \in timers :
       /\ Due(tm)
       /\ isRunning
       /\ timers' = timers \ {tm}
       /\ voided' = voided \cup {tm.burst}
  /\ UNCHANGED <<cmdVars, detailVars, aggVars, mode, env, now, cyc, reports, toolRun, debounceTimer, watching,
                 isRunning, latest, analysisPromise, waiting, lastResp, socks,
                 outputs, published, burst, lastEventAt, pendingChange>>

\* watch.ts: the timeout of handleChange, runAnalysis up to Promise.all
WmTimerRuns ==
  /\ mode = "watch"
  /\ \E tm \in timers :
       /\ Due(tm)
       /\ ~isRunning
       /\ timers' = timers \ {tm}
       /\ \E outs \in SyncOutcomes :
            StartCycle(NextId, "timer", tm, FALSE, outs)
  /\ isRunning' = TRUE
  /\ UNCHANGED <<cmdVars, detailVars, aggVars, mode, env, now, debounceTimer, watching, latest, analysisPromise,
                 waiting, lastResp, socks, outputs, published, burst,
                 lastEventAt, voided>>

\* watch.ts: WatchManager.runOnce while an analysis runs: nothing happens
WmRunOnceSkipped ==
  /\ mode = "watch"
  /\ isRunning
  /\ UNCHANGED <<cmdVars, detailVars, loopVars, aggVars>>

\* watch.ts: WatchManager.runOnce, runAnalysis up to Promise.all
WmRunOnce ==
  /\ mode = "watch"
  /\ ~isRunning
  /\ Cardinality({c \in CycleIds : cyc[c].trigger = "manual"}) < MaxManual
  /\ \E outs \in SyncOutcomes : StartCycle(NextId, "manual", NoBurst, FALSE, outs)
  /\ isRunning' = TRUE
  /\ UNCHANGED <<cmdVars, detailVars, aggVars, mode, env, now, timers, debounceTimer, watching, latest,
                 analysisPromise, waiting, lastResp, socks, outputs, published,
                 burst, lastEventAt, voided>>

\* dashboard.ts: the callback given to watchForChanges:
\* analysisPromise = updateAnalysis(), runAnalysis up to Promise.all
DashTimerRuns ==
  /\ mode = "dashboard"
  /\ \E tm \in timers :
       /\ Due(tm)
       /\ timers' = timers \ {tm}
       /\ \E outs \in SyncOutcomes :
            StartCycle(NextId, "timer", tm, TRUE, outs)
  /\ analysisPromise' = NextId
  /\ UNCHANGED <<cmdVars, detailVars, aggVars, mode, env, now, debounceTimer, watching, isRunning, latest, waiting,
                 lastResp, socks, outputs, published, burst, lastEventAt, voided>>

\* runEslint settles: lintFiles is done and the report is written
EslintSettles(c) ==
  /\ cyc[c].ad["eslint"] = "running"
  /\ env["eslint"] /= "hang"
  /\ \E out \in {env["eslint"]} :
       /\ reports' = [reports EXCEPT !["eslint"] = Last(Adapter("eslint", out))]
       /\ toolRun' = [toolRun EXCEPT !["eslint"] = out]
  /\ cyc' = [cyc EXCEPT ![c].ad["eslint"] = "fulfilled"]
  /\ UNCHANGED <<cmdVars, detailVars, aggVars, mode, env, now, timers, debounceTimer, watching, isRunning, latest,
                 analysisPromise, waiting, lastResp, socks, outputs, published,
                 burst, lastEventAt, voided, pendingChange>>

\* the record of a cycle that has ended: when it started and how many events
\* asked for it are kept only while it runs
Finished(r, how) == [r EXCEPT !.phase = how, !.startedAt = 0, !.many = FALSE]

\* what aggregateReports returns for cycle c
SnapshotOf(c) == aggregateReports(reports, GeneratedAt(c), NoDraws)

\* socket.send to every open client
Broadcast(snap) ==
  [k \in Clients |-> IF socks[k].open THEN [socks[k] EXCEPT !.got = snap] ELSE socks[k]]

\* a flag that is cleared only at the end of the try block
Finally_m(how) == how = "failed"

\* watch.ts: runAnalysis: finally { this.isRunning = false }, whichever way
\* the try block ended
Finally(how) == FALSE

\* watch.ts: runAnalysis after Promise.all: aggregateReports,
\* emit('analysis:complete', stats), finally
WmCycleCompletes(c) ==
  /\ mode = "watch"
  /\ cyc[c].phase = "running"
  /\ JoinReady(c)
  /\ LET snap == SnapshotOf(c) IN
       /\ reports' = [reports EXCEPT !["aggregated"] = snap]
       /\ outputs' = outputs \cup {snap}
       /\ published' = snap
       /\ socks' = Broadcast(snap)
  /\ cyc' = [cyc EXCEPT ![c] = Finished(@, "done")]
  /\ isRunning' = Finally("done")
  /\ UNCHANGED <<cmdVars, detailVars, aggVars, mode, env, now, toolRun, timers, debounceTimer, watching, latest,
                 analysisPromise, waiting, lastResp, burst, lastEventAt, voided,
                 pendingChange>>

\* watch.ts: runAnalysis after Promise.all when aggregateReports throws
\* (a report cannot be read or written): catch, emit('analysis:error'), finally
WmCycleFails(c) ==
  /\ mode = "watch"
  /\ cyc[c].phase = "running"
  /\ JoinReady(c)
  /\ cyc' = [cyc EXCEPT ![c] = Finished(@, "failed")]
  /\ isRunning' = Finally("failed")
  /\ UNCHANGED <<cmdVars, detailVars, aggVars, mode, env, now, reports, toolRun, timers, debounceTimer, watching,
                 latest, analysisPromise, waiting, lastResp, socks, outputs,
                 published, burst, lastEventAt, voided, pendingChange>>

Response(code, body, failedBefore) ==
  [status |-> code, body |-> body, afterFail |-> failedBefore]

SomeFailed == \E c \in CycleIds : cyc[c].phase = "failed"

\* dashboard.ts: updateAnalysis after runAnalysis resolved: the Snapshot is
\* published and sent; the GET /api/stats handlers suspended on this promise
\* go on in the same turn: analysisPromise = null, then the answer
DashCycleCompletes(c) ==
  /\ mode = "dashboard"
  /\ cyc[c].phase = "running"
  /\ JoinReady(c)
  /\ LET snap == SnapshotOf(c)
         resumed == {w \in waiting : w.p = c}
     IN
       /\ reports' = [reports EXCEPT !["aggregated"] = snap]
       /\ outputs' = outputs \cup {snap}
       /\ published' = snap
       /\ latest' = Publish(latest, snap)
       /\ socks' = Broadcast(snap)
       /\ waiting' = waiting \ resumed
       /\ analysisPromise' = IF resumed = {} THEN analysisPromise ELSE 0
       /\ lastResp' = IF resumed = {} THEN lastResp
                      ELSE Response(200, latest', \E w \in resumed : w.afterFail)
  /\ cyc' = [cyc EXCEPT ![c] = Finished(@, "done")]
  /\ UNCHANGED <<cmdVars, detailVars, aggVars, mode, env, now, toolRun, timers, debounceTimer, watching, isRunning,
                 burst, lastEventAt, voided, pendingChange>>

\* dashboard.ts: updateAnalysis when runAnalysis rejects: the promise is
\* rejected; the suspended handlers catch and answer 500
DashCycleFails(c) ==
  /\ mode = "dashboard"
  /\ cyc[c].phase = "running"
  /\ JoinReady(c)
  /\ LET resumed == {w \in waiting : w.p = c} IN
       /\ waiting' = waiting \ resumed
       /\ lastResp' = IF resumed = {} THEN lastResp
                      ELSE Response(500, Null, \E w \in resumed : w.afterFail)
  /\ cyc' = [cyc EXCEPT ![c] = Finished(@, "failed")]
  /\ UNCHANGED <<cmdVars, detailVars, aggVars, mode, env, now, reports, toolRun, timers, debounceTimer, watching,
                 isRunning, latest, analysisPromise, socks, outputs, published,
                 burst, lastEventAt, voided, pendingChange>>

\* dashboard.ts: GET /api/stats while the kept promise is pending: the handler
\* is suspended at "await analysisPromise"
DashStatsWaits ==
  /\ mode = "dashboard"
  /\ analysisPromise /= 0
  /\ cyc[analysisPromise].phase = "running"
  /\ waiting' = waiting \cup {[p |-> analysisPromise, stale |-> latest /= Null,
                               afterFail |-> SomeFailed]}
  /\ UNCHANGED <<cmdVars, detailVars, aggVars, mode, env, now, cyc, reports, toolRun, timers, debounceTimer, watching,
                 isRunning, latest, analysisPromise, lastResp, socks, outputs,
                 published, burst, lastEventAt, voided, pendingChange>>

\* dashboard.ts: GET /api/stats when the kept promise is fulfilled
DashStatsSettled ==
  /\ mode = "dashboard"
  /\ analysisPromise /= 0
  /\ cyc[analysisPromise].phase = "done"
  /\ analysisPromise' = 0
  /\ lastResp' = IF latest = Null THEN Response(503, Null, SomeFailed)
                 ELSE Response(200, latest, SomeFailed)
  /\ UNCHANGED <<cmdVars, detailVars, aggVars, mode, env, now, cyc, reports, toolRun, timers, debounceTimer, watching,
                 isRunning, latest, waiting, socks, outputs, published, burst,
                 lastEventAt, voided, pendingChange>>

\* dashboard.ts: GET /api/stats when the kept promise is rejected: await
\* throws, the assignment of null is skipped, the catch block answers 500
DashStatsRejected ==
  /\ mode = "dashboard"
  /\ analysisPromise /= 0
  /\ cyc[analysisPromise].phase = "failed"
  /\ lastResp' = Response(500, Null, SomeFailed)
  /\ UNCHANGED <<cmdVars, detailVars, aggVars, mode, env, now, cyc, reports, toolRun, timers, debounceTimer, watching,
                 isRunning, latest, analysisPromise, waiting, socks, outputs,
                 published, burst, lastEventAt, voided, pendingChange>>

\* dashboard.ts: GET /api/stats when no promise is kept
DashStatsLatest ==
  /\ mode = "dashboard"
  /\ Started /= {}
  /\ analysisPromise = 0
  /\ lastResp' = IF latest = Null THEN Response(503, Null, SomeFailed)
                 ELSE Response(200, latest, SomeFailed)
  /\ UNCHANGED <<cmdVars, detailVars, aggVars, mode, env, now, cyc, reports, toolRun, timers, debounceTimer, watching,
                 isRunning, latest, analysisPromise, waiting, socks, outputs,
                 published, burst, lastEventAt, voided, pendingChange>>

\* api.ts: setupStatsRoute: the aggregated report is read from the directory
WmStats ==
  /\ mode = "watch"
  /\ lastResp' = IF reports["aggregated"] = Absent THEN Response(404, Null, SomeFailed)
                 ELSE Response(200, reports["aggregated"], SomeFailed)
  /\ UNCHANGED <<cmdVars, detailVars, aggVars, mode, env, now, cyc, reports, toolRun, timers, debounceTimer, watching,
                 isRunning, latest, analysisPromise, waiting, socks, outputs,
                 published, burst, lastEventAt, voided, pendingChange>>

\* dashboard.ts: GET /ws: the latest Snapshot, if any, is sent on connect
DashWsConnect(k) ==
  /\ mode = "dashboard"
  /\ Started /= {}
  /\ ~socks[k].open
  /\ socks' = [socks EXCEPT ![k] = [open |-> TRUE,
                                    got |-> IF latest = Null THEN @.got ELSE latest]]
  /\ UNCHANGED <<cmdVars, detailVars, aggVars, mode, env, now, cyc, reports, toolRun, timers, debounceTimer, watching,
                 isRunning, latest, analysisPromise, waiting, lastResp, outputs,
                 published, burst, lastEventAt, voided, pendingChange>>

\* api.ts: handleWebSocketConnection: the client listens for analysis:complete
WmWsConnect(k) ==
  /\ mode = "watch"
  /\ ~socks[k].open
  /\ socks' = [socks EXCEPT ![k].open = TRUE]
  /\ UNCHANGED <<cmdVars, detailVars, aggVars, mode, env, now, cyc, reports, toolRun, timers, debounceTimer, watching,
                 isRunning, latest, analysisPromise, waiting, lastResp, outputs,
                 published, burst, lastEventAt, voided, pendingChange>>

\* the client goes away
WsClose(k) ==
  /\ socks[k].open
  /\ socks' = [socks EXCEPT ![k] = [open |-> FALSE, got |-> Null]]
  /\ UNCHANGED <<cmdVars, detailVars, aggVars, mode, env, now, cyc, reports, toolRun, timers, debounceTimer, watching,
                 isRunning, latest, analysisPromise, waiting, lastResp, outputs,
                 published, burst, lastEventAt, voided, pendingChange>>

vars == <<loopVars, aggVars, detailVars, cmdVars>>

Next ==
  \/ Tick
  \/ StartDashboardServer
  \/ WmStart
  \/ WmStop
  \/ WmChangeSkipped
  \/ WmChange
  \/ DebouncedCallback
  \/ WmTimerSkipped
  \/ WmTimerRuns
  \/ WmRunOnceSkipped
  \/ WmRunOnce
  \/ DashTimerRuns
  \/ \E c \in CycleIds : EslintSettles(c)
  \/ \E c \in CycleIds : WmCycleCompletes(c)
  \/ \E c \in CycleIds : WmCycleFails(c)
  \/ \E c \in CycleIds : DashCycleCompletes(c)
  \/ \E c \in CycleIds : DashCycleFails(c)
  \/ DashStatsWaits
  \/ DashStatsSettled
  \/ DashStatsRejected
  \/ DashStatsLatest
  \/ WmStats
  \/ \E k \in Clients : DashWsConnect(k)
  \/ \E k \in Clients : WmWsConnect(k)
  \/ \E k \in Clients : WsClose(k)

Spec == Init /\ [][Next]_vars

\* The event loop runs every callback that is ready: a lintFiles promise
\* that can settle settles, and the continuation of a settled Promise.all
\* runs.
CycleEnds(c) ==
  \/ WmCycleFails(c) \/ DashCycleFails(c)
  \/ WmCycleCompletes(c) \/ DashCycleCompletes(c)

SpecLive ==
  /\ Init /\ [][Next]_vars
  /\ \A c \in CycleIds : WF_vars(EslintSettles(c)) /\ WF_vars(CycleEnds(c))

\* ========================================================================
\* Adapters and aggregation alone: a reports directory drawn from the
\* reports below, adapters run on it one at a time, and aggregateReports
\* applied to it with every report present and with one report absent
\* ========================================================================
MaxFns == 1
DrawValues == {0, 14}

ClocInputs ==
  {Report([files |-> fs], FALSE) :
     fs \in {<<>>,
             << [file |-> FileA, loc |-> 3, code |-> 2, comment |-> 1, blank |-> 0] >>,
             << [file |-> FileA, loc |-> 3, code |-> 2, comment |-> 1, blank |-> 0],
                [file |-> FileB, loc |-> 5, code |-> 5, comment |-> 0, blank |-> 0] >>}}

EslintInputs ==
  {Report(GoodData("eslint"), FALSE), Report(EmptyData("eslint"), FALSE),
   Report([results |-> << [filePath |-> <<"/", "b">>,
                           messages |-> << [ruleId |-> "complexity", line |-> 2,
                                            message |-> <<Word("complexity"), Word("of"), Num(7)>>] >>] >>],
          FALSE)}

DepCruiseInputs ==
  {Report(GoodData("depcruise"), FALSE), Report(EmptyData("depcruise"), FALSE)}

KnipInputs ==
  {Report(GoodData("knip"), FALSE), Report(EmptyData("knip"), FALSE)}

InputsOf(t) ==
  CASE t = "eslint" -> EslintInputs
    [] t = "depcruise" -> DepCruiseInputs
    [] t = "knip" -> KnipInputs
    [] t = "cloc" -> ClocInputs

\* what Math.random gives to one aggregateReports call: one draw for each
\* function line of file a; file b has no such line
DrawsOf(n) ==
  {[f \in {FileA, FileB} |-> IF f = FileA THEN d ELSE <<>>] : d \in [1..n -> DrawValues]}

InitAgg ==
  /\ mode = "aggregate"
  /\ env = [t \in Tools |-> "ok"]
  /\ LoopInit
  /\ aggIn \in {d \in [Tools -> UNION {InputsOf(t) : t \in Tools}] :
                  \A t \in Tools : d[t] \in InputsOf(t)}
  /\ aggRun = [t \in Tools |-> "none"]
  /\ aggFns \in 0..MaxFns
  /\ aggOut = NoAgg
  /\ DetailIdle
  /\ CmdIdle

\* one adapter invocation, from its call to the settling of its promise
AdapterRuns(t) ==
  /\ \E out \in ToolOutcomes(t) :
       /\ aggIn' = [aggIn EXCEPT ![t] = Last(Adapter(t, out))]
       /\ aggRun' = [aggRun EXCEPT ![t] = out]
  /\ aggOut' = NoAgg
  /\ UNCHANGED <<cmdVars, detailVars, loopVars, aggFns>>

\* aggregateReports on the directory as it is
AggregateAll ==
  /\ \E d \in DrawsOf(aggFns) :
       aggOut' = [aggOut EXCEPT !.all = aggregateReports(aggIn, 0, d)]
  /\ UNCHANGED <<cmdVars, detailVars, loopVars, aggIn, aggRun, aggFns>>

\* aggregateReports on the directory with the report of t missing
AggregateWithout(t) ==
  /\ \E d \in DrawsOf(aggFns) :
       aggOut' = [aggOut EXCEPT
                    !.part = aggregateReports([aggIn EXCEPT ![t] = Absent], 0, d),
                    !.without = t]
  /\ UNCHANGED <<cmdVars, detailVars, loopVars, aggIn, aggRun, aggFns>>

NextAgg ==
  \/ \E t \in Tools : AdapterRuns(t)
  \/ AggregateAll
  \/ \E t \in Tools : AggregateWithout(t)

SpecAgg == InitAgg /\ [][NextAgg]_vars

\* ========================================================================
\* The extractors on larger reports: aggregateReports applied once to a
\* reports directory in which one report is drawn from the families below
\* and the others are empty
\* ========================================================================
MaxFiles == 52
MaxMsgs == 2
MaxViolations == 2

DigitChars == <<"0", "1", "2", "3", "4", "5", "6", "7", "8", "9">>
\* the i-th file of a generated project: s/01, s/02, ...
NumberedFile(i) == <<"s", "/", DigitChars[(i \div 10) + 1], DigitChars[(i % 10) + 1]>>

\* line counts by position: <<step, modulus>> gives file i the code line
\* count (i * step) % modulus + 1; modulus 59 gives all different counts
\* (ascending for step 1), modulus 5 many equal ones
LineFamilies == {<<1, 59>>, <<7, 59>>, <<3, 5>>}

NumberedEntry(i, fam) ==
  LET code == ((i * fam[1]) % fam[2]) + 1
  IN [file |-> NumberedFile(i), loc |-> code + (i % 2) + 1, code |-> code,
      comment |-> i % 2, blank |-> 1]

\* numbers of files around the limit of largestFiles, and small ones
FileCounts == {0, 1, 2} \cup {n \in (MaxFiles - 3)..MaxFiles : n > 0}

ExtClocInputs ==
  {Report([files |-> [i \in 1..n |-> NumberedEntry(i, fam)]], FALSE) :
     n \in FileCounts, fam \in LineFamilies}

\* the messages of one lint result: cognitive-complexity messages whose
\* text gives 5, gives 9, or gives no number
NoMetricMessage ==
  [ruleId |-> "sonarjs/cognitive-complexity", line |-> 1,
   message |-> <<Word("too"), Word("complex")>>]
MessageLists ==
  UNION {[1..k -> {ComplexityMessage(5), ComplexityMessage(9), NoMetricMessage}] :
           k \in 0..MaxMsgs}

ExtEslintInputs ==
  {Report([results |-> << [filePath |-> <<"/">> \o f[1], messages |-> m1],
                          [filePath |-> <<"/">> \o f[2], messages |-> m2] >>], FALSE) :
     f \in {<<FileA, FileB>>, <<FileB, FileA>>}, m1 \in MessageLists, m2 \in MessageLists}

\* the cycle of a violation: two files in both orders, with the first file
\* repeated at the end, two other files, no cycle
ExtCycles == {<<FileA, FileB>>, <<FileB, FileA>>, <<FileA, FileB, FileA>>,
              <<FileA, FileInS>>, <<>>}

ExtDepCruiseInputs ==
  {Report([modules |-> <<>>, violations |-> [i \in 1..k |-> [cycle |-> v[i]]]], FALSE) :
     k \in 0..MaxViolations, v \in [1..MaxViolations -> ExtCycles]}

EmptyDir == [t \in Tools |-> Report(EmptyData(t), FALSE)]

ExtDirs ==
  {[EmptyDir EXCEPT !["cloc"] = r] : r \in ExtClocInputs}
  \cup {[EmptyDir EXCEPT !["eslint"] = r] : r \in ExtEslintInputs}
  \cup {[EmptyDir EXCEPT !["depcruise"] = r] : r \in ExtDepCruiseInputs}

InitExt ==
  /\ mode = "extract"
  /\ env = [t \in Tools |-> "ok"]
  /\ LoopInit
  /\ aggIn \in ExtDirs
  /\ aggRun = [t \in Tools |-> "none"]
  /\ aggFns = 0
  /\ aggOut = NoAgg
  /\ DetailIdle
  /\ CmdIdle

NextExt == AggregateAll

SpecExt == InitExt /\ [][NextExt]_vars

\* ========================================================================
\* The file-detail query alone: a server whose first analysis is running,
\* analyses that end one after the other, and GET /api/file-detail requests
\* in between
\* ========================================================================

\* String.prototype.split('/'): the pieces between the slashes, empty ones
\* included
RECURSIVE Split(_)
Split(p) ==
  LET slashes == {i \in 1..Len(p) : p[i] = "/"}
  IN IF slashes = {} THEN << p >>
     ELSE << SubSeq(p, 1, Min(slashes) - 1) >>
          \o Split(SubSeq(p, Min(slashes) + 1, Len(p)))

\* Array.prototype.join('/')
RECURSIVE Join(_)
Join(segs) ==
  IF segs = <<>> THEN <<>>
  ELSE IF Len(segs) = 1 THEN segs[1]
  ELSE segs[1] \o << "/" >> \o Join(Tail(segs))

\* path.split('/').slice(-3).join('/')
LastThree(p) ==
  LET parts == Split(p)
  IN Join(SubSeq(parts, IF Len(parts) > 3 THEN Len(parts) - 2 ELSE 1, Len(parts)))

\* f.file === file || f.file.endsWith(file) || file.endsWith(f.file)
FileMatches(f, file) == f = file \/ EndsWith(f, file) \/ EndsWith(file, f)

\* r.filePath.endsWith(file) || file.endsWith(r.filePath.split('/').slice(-3).join('/'))
ReportPathMatches(path, file) == EndsWith(path, file) \/ EndsWith(file, LastThree(path))

\* api.ts: getEslintIssuesForFile
getEslintIssuesForFile(eslintReport, file) ==
  LET res == IF eslintReport = Absent THEN <<>> ELSE eslintReport.results
      ri == FirstIdx({i \in 1..Len(res) : ReportPathMatches(res[i].filePath, file)})
  IN IF ri = 0 THEN <<>> ELSE res[ri].messages

\* api.ts: getDependencyInfoForFile
getDependencyInfoForFile(depCruiseReport, file) ==
  LET mods == IF depCruiseReport = Absent THEN <<>> ELSE depCruiseReport.modules
      mi == FirstIdx({i \in 1..Len(mods) : ReportPathMatches(mods[i].source, file)})
      deps == IF mi = 0 THEN <<>> ELSE mods[mi].dependencies
      users == FilterSeq(mods, {i \in 1..Len(mods) :
                 \E k \in 1..Len(mods[i].dependencies) :
                   EndsWith(mods[i].dependencies[k].resolved, file)})
  IN [dependencies |-> [i \in 1..Len(deps) |->
                          [module |-> deps[i].resolved, circular |-> FALSE, valid |-> TRUE]],
      dependents |-> [i \in 1..Len(users) |-> users[i].source]]

\* the entries of a slice that belong to the file: Array.prototype.filter
MatchingEntries(slice, file) ==
  FilterSeq(slice, {i \in 1..Len(slice) : FileMatches(slice[i].file, file)})

\* api.ts: getIssuesForFile
getIssuesForFile(aggregatedStats, file) ==
  [complexityIssues |-> MatchingEntries(aggregatedStats.complexFunctions, file),
   lineViolations |-> MatchingEntries(aggregatedStats.maxLineOffenders, file),
   deadCodeIssues |-> MatchingEntries(aggregatedStats.deadCode, file)]

\* aggregatedStats.largestFiles.find(...): the index of the first entry that
\* matches, or 0
FindFileMetrics(aggregatedStats, file) ==
  FirstIdx({i \in 1..Len(aggregatedStats.largestFiles) :
              FileMatches(aggregatedStats.largestFiles[i].file, file)})

DetailAnswer(status, error, file, body) ==
  [status |-> status, error |-> error, file |-> file, body |-> body]

\* api.ts: getFileDetailData, what it returns when the file is found
getFileDetailData(file, dir) ==
  LET stats == dir["aggregated"]
      issues == getIssuesForFile(stats, file)
      eslintIssues == getEslintIssuesForFile(dir["eslint"], file)
      info == getDependencyInfoForFile(dir["depcruise"], file)
  IN [metrics |-> stats.largestFiles[FindFileMetrics(stats, file)],
      eslintIssues |-> eslintIssues,
      dependencies |-> info.dependencies,
      dependents |-> info.dependents,
      complexityIssues |-> issues.complexityIssues,
      lineViolations |-> issues.lineViolations,
      deadCodeIssues |-> issues.deadCodeIssues,
      summary |-> [totalIssues |-> Len(eslintIssues) + Len(issues.complexityIssues)
                                   + Len(issues.lineViolations) + Len(issues.deadCodeIssues),
                   hasCircularDeps |-> FALSE,
                   isDeadCode |-> Len(issues.deadCodeIssues) > 0]]

\* api.ts: setupFileDetailRoute: both errors thrown by getFileDetailData end
\* in the one catch block
setupFileDetailRoute(file, dir) ==
  IF file = <<>> THEN DetailAnswer(400, "File parameter is required", file, Null)
  ELSE IF dir["aggregated"] = Absent \/ FindFileMetrics(dir["aggregated"], file) = 0
  THEN DetailAnswer(500, "Failed to read file analysis data", file, Null)
  ELSE DetailAnswer(200, "", file, getFileDetailData(file, dir))

\* dashboard: setupFileDetailApi after "await analysisPromise"
setupFileDetailApi(file, current) ==
  IF current = Null THEN DetailAnswer(503, "Analysis not ready yet", file, Null)
  ELSE IF FindFileMetrics(current, file) = 0
  THEN DetailAnswer(404, "File not found in analysis", file, Null)
  ELSE LET issues == getIssuesForFile(current, file)
       IN DetailAnswer(200, "", file,
            [metrics |-> current.largestFiles[FindFileMetrics(current, file)],
             eslintIssues |-> <<>>, dependencies |-> <<>>, dependents |-> <<>>,
             complexityIssues |-> issues.complexityIssues,
             lineViolations |-> issues.lineViolations,
             deadCodeIssues |-> issues.deadCodeIssues,
             summary |-> [totalIssues |-> 0, hasCircularDeps |-> FALSE,
                          isDeadCode |-> FALSE]])

ClocEntry(f, n) == [file |-> f, loc |-> n, code |-> n, comment |-> 0, blank |-> 0]

DetailClocInputs ==
  {Report([files |-> fs], FALSE) :
     fs \in {<<>>,
             << ClocEntry(FileA, 3) >>,
             << ClocEntry(FileBA, 5) >>,
             << ClocEntry(FileA, 3), ClocEntry(FileInB, 5) >>,
             << ClocEntry(FileInS, 5), ClocEntry(FileInB, 3) >>}}

DetailEslintInputs ==
  {Report(EmptyData("eslint"), FALSE),
   Report([results |-> << [filePath |-> <<"/">> \o FileBA,
                           messages |-> << ComplexityMessage(7) >>] >>], FALSE)}

\* the reports directory an analysis of such a project leaves before
\* aggregateReports is called
DetailDirs ==
  {[n \in ReportNames |->
      CASE n = "cloc" -> c
        [] n = "eslint" -> e
        [] n = "depcruise" -> Last(Adapter("depcruise", "ok"))
        [] n = "knip" -> Last(Adapter("knip", "ok"))
        [] OTHER -> Absent] : c \in DetailClocInputs, e \in DetailEslintInputs}

\* the file parameter of a request; the empty one is a request without it
DetailQueries == {<<>>, FileA, FileInB, <<"s">>}

\* which of the caller's cases a request is: stats is the Snapshot the server
\* has, Null or Absent when there is none yet
DetailCond(file, stats) ==
  IF file = <<>> THEN "badRequest"
  ELSE IF stats = Null \/ stats = Absent THEN "notReady"
  ELSE IF FindFileMetrics(stats, file) = 0 THEN "notFound"
  ELSE "found"

Answered(cond, answer) ==
  /\ lastDetail' = answer
  /\ answers' = answers \cup {[cond |-> cond, status |-> answer.status,
                                error |-> answer.error]}

InitDetail ==
  /\ mode \in {"watch", "dashboard"}
  /\ env = [t \in Tools |-> "ok"]
  /\ now = 0
  /\ cyc = [c \in CycleIds |-> IF c = 1 THEN [NewCycle EXCEPT !.phase = "running"]
                                ELSE NewCycle]
  /\ reports = [n \in ReportNames |-> Absent]
  /\ toolRun = [t \in Tools |-> "none"]
  /\ timers = {}
  /\ debounceTimer = NoTimer
  /\ watching = "open"
  /\ isRunning = (mode = "watch")
  /\ latest = Null
  /\ analysisPromise = IF mode = "dashboard" THEN 1 ELSE 0
  /\ waiting = {}
  /\ lastResp = Null
  /\ socks = [k \in Clients |-> [open |-> FALSE, got |-> Null]]
  /\ outputs = {}
  /\ published = Null
  /\ burst = 0
  /\ lastEventAt = 0
  /\ voided = {}
  /\ pendingChange = FALSE
  /\ AggIdle
  /\ DetailIdle
  /\ CmdIdle

\* the analysis that runs, or the next one when none runs
DetailTurn(c) ==
  /\ c \in CycleIds
  /\ \A b \in 1..(c - 1) : cyc[b].phase \in {"done", "failed"}
  /\ cyc[c].phase \in {"new", "running"}

\* an analysis ends well: the reports are written and aggregated, and the
\* Snapshot is kept (aggregated.json; latestResults.current)
DetailCycleCompletes(c) ==
  /\ DetailTurn(c)
  /\ \E d \in DetailDirs :
       LET snap == aggregateReports(d, 0, NoDraws) IN
         /\ reports' = [d EXCEPT !["aggregated"] = snap]
         /\ latest' = IF mode = "dashboard" THEN snap ELSE latest
         /\ published' = snap
  /\ cyc' = [cyc EXCEPT ![c].phase = "done"]
  /\ isRunning' = FALSE
  /\ UNCHANGED <<cmdVars, detailVars, aggVars, mode, env, now, toolRun, timers, debounceTimer,
                 watching, analysisPromise, waiting, lastResp, socks, outputs,
                 burst, lastEventAt, voided, pendingChange>>

\* an analysis fails: runAnalysis rejects
DetailCycleFails(c) ==
  /\ DetailTurn(c)
  /\ cyc' = [cyc EXCEPT ![c].phase = "failed"]
  /\ isRunning' = FALSE
  /\ UNCHANGED <<cmdVars, detailVars, aggVars, mode, env, now, reports, toolRun, timers,
                 debounceTimer, watching, latest, analysisPromise, waiting, lastResp,
                 socks, outputs, published, burst, lastEventAt, voided, pendingChange>>

\* api.ts: GET /api/file-detail
WmFileDetail(file) ==
  /\ mode = "watch"
  /\ Answered(DetailCond(file, reports["aggregated"]), setupFileDetailRoute(file, reports))
  /\ UNCHANGED <<cmdVars, loopVars, aggVars>>

\* dashboard: GET /api/file-detail.  The handler keeps the promise of the
\* first analysis it was set up with: while that is pending the request
\* waits and is answered as below once it settles; when it was rejected,
\* await throws at every request.
DashFileDetail(file) ==
  /\ mode = "dashboard"
  /\ analysisPromise /= 0 => cyc[analysisPromise].phase /= "running"
  /\ IF file = <<>>
     THEN /\ Answered(DetailCond(file, latest), DetailAnswer(400, "File parameter is required", file, Null))
          /\ UNCHANGED analysisPromise
     ELSE IF analysisPromise /= 0 /\ cyc[analysisPromise].phase = "failed"
     THEN /\ Answered(DetailCond(file, latest),
                      DetailAnswer(500, "Failed to read file analysis data", file, Null))
          /\ UNCHANGED analysisPromise
     ELSE /\ Answered(DetailCond(file, latest), setupFileDetailApi(file, latest))
          /\ analysisPromise' = 0
  /\ UNCHANGED <<cmdVars, aggVars, mode, env, now, cyc, reports, toolRun, timers, debounceTimer,
                 watching, isRunning, latest, waiting, lastResp, socks, outputs,
                 published, burst, lastEventAt, voided, pendingChange>>

NextDetail ==
  \/ \E c \in CycleIds : DetailCycleCompletes(c)
  \/ \E c \in CycleIds : DetailCycleFails(c)
  \/ \E file \in DetailQueries : WmFileDetail(file)
  \/ \E file \in DetailQueries : DashFileDetail(file)

SpecDetail == InitDetail /\ [][NextDetail]_vars

\* ========================================================================
\* The print command: one process that cleans the reports directory, runs
\* the four adapters, aggregates, prints, checks the thresholds and exits
\* ========================================================================
MaxThreshold == 7

\* --max-lines, --max-lines-per-function, --complexity-threshold
PrintConfigs ==
  [maxLines : {MaxThreshold - 2, MaxThreshold},
   maxLinesPerFunction : {MaxThreshold - 2, MaxThreshold},
   complexityThreshold : {MaxThreshold - 2, MaxThreshold}]

\* a message of max-lines or max-lines-per-function: the count, then the limit
MaxLinesMessage(rule, n) ==
  [ruleId |-> rule, line |-> 1,
   message |-> <<Word("has"), Word("too"), Word("many"), Word("lines"), Num(n),
                 Word("Maximum"), Word("allowed"), Word("is"), Num(1)>>]

\* the counts and metrics a message can carry: at the lower threshold and
\* one above it
PrintValues == {MaxThreshold - 2, MaxThreshold - 1}

\* the lint results of the project: for file /a at most one message of each
\* of the three kinds
PrintLintInputs ==
  {[results |-> << [filePath |-> <<"/", "a">>, messages |-> f \o g \o c] >>] :
     f \in {<<>>} \cup {<<MaxLinesMessage("max-lines", n)>> : n \in PrintValues},
     g \in {<<>>} \cup {<<MaxLinesMessage("max-lines-per-function", n)>> : n \in PrintValues},
     c \in {<<>>, <<NoMetricMessage>>} \cup {<<ComplexityMessage(n)>> : n \in PrintValues}}

\* the projects of the print command: every tool works, or ESLint fails
PrintEnvs ==
  {[t \in Tools |-> "ok"], [t \in Tools |-> IF t = "eslint" THEN "error" ELSE "ok"]}

InitPrint ==
  /\ mode = "print"
  /\ env \in PrintEnvs
  /\ LoopInit
  /\ AggIdle
  /\ DetailIdle
  /\ printConfig \in PrintConfigs
  /\ printLint \in PrintLintInputs
  /\ printDir = [n \in ReportNames |-> Absent]
  /\ printPhase = "idle"
  /\ printStats = Null
  /\ exitCode = None
  /\ RunsIdle
  /\ EmitIdle
  /\ StopIdle
  /\ ListenIdle
  /\ HookIdle

\* a check that looks at the file offenders and the complex functions only
checkThresholds_m(stats, config) ==
  \/ \E i \in 1..Len(stats.maxLineOffenders) :
       /\ stats.maxLineOffenders[i].kind = "file"
       /\ stats.maxLineOffenders[i].value > config.maxLines
  \/ \E i \in 1..Len(stats.complexFunctions) :
       /\ Truthy(stats.complexFunctions[i].metric)
       /\ stats.complexFunctions[i].metric > config.complexityThreshold

\* print.ts: checkThresholds: hasIssues
checkThresholds(stats, config) ==
  LET offenders == stats.maxLineOffenders
      maxLineViolations ==
        Len(FilterSeq(offenders, {i \in 1..Len(offenders) :
              offenders[i].kind = "file" /\ offenders[i].value > config.maxLines}))
      maxLineFunctionViolations ==
        Len(FilterSeq(offenders, {i \in 1..Len(offenders) :
              offenders[i].kind = "function"
              /\ offenders[i].value > config.maxLinesPerFunction}))
      complexityViolations ==
        Len(FilterSeq(stats.complexFunctions, {i \in 1..Len(stats.complexFunctions) :
              Truthy(stats.complexFunctions[i].metric)
              /\ stats.complexFunctions[i].metric > config.complexityThreshold}))
  IN maxLineViolations > 0 \/ maxLineFunctionViolations > 0 \/ complexityViolations > 0

\* print.ts: printCommand up to "await Promise.all": cleanReportsDir, and
\* everything the adapters do before ESLint yields
PrintCommandStarts ==
  /\ mode = "print"
  /\ printPhase = "idle"
  /\ printDir' = AfterSyncAdapters(cleanReportsDir(printDir), [t \in SyncTools |-> env[t]])
  /\ printPhase' = "adapters"
  /\ UNCHANGED <<outsidePrint, printConfig, printLint, printStats, exitCode>>

\* print.ts: printCommand when getReportsDir or cleanReportsDir throws:
\* the catch block, process.exit(1)
PrintCommandCannotStart ==
  /\ mode = "print"
  /\ printPhase = "idle"
  /\ printPhase' = "exited"
  /\ exitCode' = 1
  /\ UNCHANGED <<outsidePrint, printConfig, printLint, printDir, printStats>>

\* the directory once runEslint has written its report
PrintDirAfterEslint ==
  [printDir EXCEPT !["eslint"] = Last(runEslint(env["eslint"], printLint))]

\* print.ts: printCommand after Promise.all: aggregateReports, the output,
\* checkThresholds, process.exit(1) or the return
PrintCommandCompletes ==
  /\ mode = "print"
  /\ printPhase = "adapters"
  /\ LET stats == aggregateReports(PrintDirAfterEslint, now, NoDraws) IN
       /\ printDir' = [PrintDirAfterEslint EXCEPT !["aggregated"] = stats]
       /\ printStats' = stats
       /\ exitCode' = IF checkThresholds(stats, printConfig) THEN 1 ELSE 0
  /\ printPhase' = "exited"
  /\ UNCHANGED <<outsidePrint, printConfig, printLint>>

\* print.ts: printCommand when aggregateReports throws (a report cannot be
\* read or written): the catch block, process.exit(1)
PrintCommandFails ==
  /\ mode = "print"
  /\ printPhase = "adapters"
  /\ printDir' = PrintDirAfterEslint
  /\ printPhase' = "exited"
  /\ exitCode' = 1
  /\ UNCHANGED <<outsidePrint, printConfig, printLint, printStats>>

NextPrint ==
  \/ PrintCommandStarts
  \/ PrintCommandCannotStart
  \/ PrintCommandCompletes
  \/ PrintCommandFails

SpecPrint == InitPrint /\ [][NextPrint]_vars

\* ========================================================================
\* runAnalysis called on one project root by the dashboard (at startup and
\* from the watcher callback) and by the MCP handlers: every call uses the
\* reports directory getReportsDir gives for that root
\* ========================================================================
MaxRuns == 3
MaxVersions == 2

Callers == {"updateAnalysis", "handleAnalyze", "handleSummary"}
RunIds == 1..MaxRuns

\* a report as written by call r when the project was at version v
Written(r, v) == [by |-> r, version |-> v]

\* who wrote the report a call reads: 0 when the file is not there
ReadFrom(dir, t) == IF dir[t] = Absent THEN 0 ELSE dir[t].by

InitRuns ==
  /\ mode = "runs"
  /\ env = [t \in Tools |-> "ok"]
  /\ LoopInit
  /\ AggIdle
  /\ DetailIdle
  /\ PrintIdle
  /\ RunsIdle
  /\ EmitIdle
  /\ StopIdle
  /\ ListenIdle
  /\ HookIdle

\* a file of the project is edited
ProjectChanges ==
  /\ projVersion < MaxVersions
  /\ projVersion' = projVersion + 1
  /\ UNCHANGED <<outsideRuns, sharedDir, runs>>

\* aggregate.ts: runAnalysis up to "await Promise.all": cleanReportsDir
\* removes every report, the adapters of SyncTools write theirs
RunAnalysisStarts(who) ==
  /\ Len(runs) < MaxRuns
  /\ LET r == Len(runs) + 1 IN
       /\ sharedDir' = [n \in ReportNames |->
                          IF n \in SyncTools THEN Written(r, projVersion) ELSE Absent]
       /\ runs' = Append(runs, [caller |-> who, phase |-> "adapters",
                                read |-> [t \in Tools |-> 0]])
  /\ UNCHANGED <<outsideRuns, projVersion>>

\* aggregate.ts: aggregateReports: the four readReport calls
ReadsOf(r, dir) == [t \in Tools |-> ReadFrom(dir, t)]

\* aggregate.ts: runAnalysis once lintFiles has settled: runEslint writes its
\* report, Promise.all is fulfilled, aggregateReports reads the four reports
\* and writes the aggregated one, all in one turn of the event loop
RunAnalysisCompletes(r) ==
  /\ r \in 1..Len(runs)
  /\ runs[r].phase = "adapters"
  /\ LET dir == [sharedDir EXCEPT !["eslint"] = Written(r, projVersion)] IN
       /\ runs' = [runs EXCEPT ![r].phase = "done", ![r].read = ReadsOf(r, dir)]
       /\ sharedDir' = [dir EXCEPT !["aggregated"] = Written(r, projVersion)]
  /\ UNCHANGED <<outsideRuns, projVersion>>

NextRuns ==
  \/ ProjectChanges
  \/ \E who \in Callers : RunAnalysisStarts(who)
  \/ \E r \in RunIds : RunAnalysisCompletes(r)

SpecRuns == InitRuns /\ [][NextRuns]_vars

\* ========================================================================
\* The events of WatchManager.runAnalysis: EventEmitter.emit calls the
\* listeners in the caller's turn, and a listener that throws makes emit
\* throw at the place of the call
\* ========================================================================
MaxEmitCycles == 3

\* one emit call: the event, and whether one of its listeners threw
Emit(ev, threw) == [event |-> ev, threw |-> threw]

InitEmit ==
  /\ mode = "events"
  /\ env = [t \in Tools |-> "ok"]
  /\ LoopInit
  /\ AggIdle
  /\ DetailIdle
  /\ PrintIdle
  /\ RunsIdle
  /\ EmitIdle
  /\ StopIdle
  /\ ListenIdle
  /\ HookIdle

\* watch.ts: runAnalysis, the catch block: emit('analysis:error'); when
\* that throws as well the promise of runAnalysis is rejected
CatchBlock(log) == {Append(log, Emit("analysis:error", t)) : t \in BOOLEAN}

\* watch.ts: runAnalysis up to "await Promise.all": the guard, the flag,
\* emit('analysis:start'); a listener that throws sends it to the catch
\* block and to finally
EmitAnalysisStarts ==
  /\ ~isRunning
  /\ Len(emitted) < MaxEmitCycles
  /\ \/ /\ emitted' = Append(emitted, <<Emit("analysis:start", FALSE)>>)
        /\ isRunning' = TRUE
     \/ /\ \E log \in CatchBlock(<<Emit("analysis:start", TRUE)>>) :
             emitted' = Append(emitted, log)
        /\ isRunning' = Finally("failed")
  /\ UNCHANGED outsideEmit

\* watch.ts: runAnalysis after Promise.all and aggregateReports:
\* emit('analysis:complete', stats); a listener that throws sends it to the
\* catch block
EmitAnalysisCompletes ==
  /\ isRunning
  /\ LET n == Len(emitted) IN
       \/ emitted' = [emitted EXCEPT ![n] = Append(@, Emit("analysis:complete", FALSE))]
       \/ \E log \in CatchBlock(Append(emitted[n], Emit("analysis:complete", TRUE))) :
            emitted' = [emitted EXCEPT ![n] = log]
  /\ isRunning' = Finally("done")
  /\ UNCHANGED outsideEmit

\* watch.ts: runAnalysis when Promise.all or aggregateReports rejects
EmitAnalysisFails ==
  /\ isRunning
  /\ \E log \in CatchBlock(emitted[Len(emitted)]) :
       emitted' = [emitted EXCEPT ![Len(emitted)] = log]
  /\ isRunning' = Finally("failed")
  /\ UNCHANGED outsideEmit

NextEmit ==
  \/ EmitAnalysisStarts
  \/ EmitAnalysisCompletes
  \/ EmitAnalysisFails

SpecEmit == InitEmit /\ [][NextEmit]_vars

\* ========================================================================
\* Starting and stopping dashboard servers: the dashboard command with its
\* signal handlers, and the MCP handlers with the server they keep
\* ========================================================================
MaxServers == 2
MaxStopCycles == 3

\* dashboard.ts: what startDashboardServer sets up: the first analysis is
\* started, the watcher is open, no timeout is pending, the server listens
NewDashboard(owner) ==
  [owner |-> owner, watcher |-> "open", timer |-> FALSE, server |-> "listening",
   stopped |-> "no", cycles |-> 1, atStop |-> 0]

\* fastify.close() on the server object, as the MCP handlers call it
Closed(d, by) == [d EXCEPT !.server = "closed", !.stopped = by, !.atStop = d.cycles]

InitStop ==
  /\ mode = "servers"
  /\ env = [t \in Tools |-> "ok"]
  /\ LoopInit
  /\ AggIdle
  /\ DetailIdle
  /\ PrintIdle
  /\ RunsIdle
  /\ EmitIdle
  /\ StopIdle
  /\ ListenIdle
  /\ HookIdle

\* part_001: dashboardCommand: startDashboardServer
DashboardCommand ==
  /\ Len(dash) < MaxServers
  /\ dash' = Append(dash, NewDashboard("command"))
  /\ UNCHANGED <<outsideStop, dashboardServer>>

\* part_001: the SIGINT and SIGTERM handlers: cleanup() closes the watcher
\* and the server, then process.exit(0) ends the process and its timers
Sigint(i) ==
  /\ i \in 1..Len(dash)
  /\ dash[i].owner = "command"
  /\ dash[i].stopped = "no"
  /\ dash' = [dash EXCEPT ![i] = [Closed(@, "cleanup") EXCEPT !.watcher = "closed",
                                                              !.timer = FALSE]]
  /\ UNCHANGED <<outsideStop, dashboardServer>>

\* handlers.ts: handleDashboard: the server kept is closed, a new one is
\* started and kept
HandleDashboard ==
  /\ Len(dash) < MaxServers
  /\ LET old == IF dashboardServer = 0 THEN dash
                ELSE [dash EXCEPT ![dashboardServer] = Closed(@, "handleDashboard")]
     IN dash' = Append(old, NewDashboard("mcp"))
  /\ dashboardServer' = Len(dash) + 1
  /\ UNCHANGED outsideStop

\* handlers.ts: handleStopDashboard when a server is kept
HandleStopDashboard ==
  /\ dashboardServer /= 0
  /\ dash' = [dash EXCEPT ![dashboardServer] = Closed(@, "handleStopDashboard")]
  /\ dashboardServer' = 0
  /\ UNCHANGED outsideStop

\* watch.ts: watchForChanges.debouncedCallback: the watcher reports a
\* change, the timeout is set anew
StopFileEvent(i) ==
  /\ i \in 1..Len(dash)
  /\ dash[i].watcher = "open"
  /\ dash' = [dash EXCEPT ![i].timer = TRUE]
  /\ UNCHANGED <<outsideStop, dashboardServer>>

\* dashboard.ts: the timeout fires: the watcher callback calls
\* updateAnalysis()
StopTimerFires(i) ==
  /\ i \in 1..Len(dash)
  /\ dash[i].timer
  /\ dash[i].cycles < MaxStopCycles
  /\ dash' = [dash EXCEPT ![i].timer = FALSE, ![i].cycles = @ + 1]
  /\ UNCHANGED <<outsideStop, dashboardServer>>

NextStop ==
  \/ DashboardCommand
  \/ \E i \in 1..MaxServers : Sigint(i)
  \/ HandleDashboard
  \/ HandleStopDashboard
  \/ \E i \in 1..MaxServers : StopFileEvent(i)
  \/ \E i \in 1..MaxServers : StopTimerFires(i)

SpecStop == InitStop /\ [][NextStop]_vars

\* ========================================================================
\* startServerWithRetry: the loop around fastify.listen; what a listen call
\* does is decided by the machine at the time of the call
\* ========================================================================
maxRetries == 10
\* the largest port number listen accepts
MaxPort == 65535

ConfigPorts == {1, 3000, 8080, 43110, MaxPort - 5}

\* what fastify.listen can do on a port: it listens, it rejects with
\* EADDRINUSE, or it rejects with another error; a port number above
\* MaxPort is rejected as a bad port
ListenOutcomes(port) ==
  IF port > MaxPort THEN {"other"} ELSE {"ok", "EADDRINUSE", "other"}

InitListen ==
  /\ mode = "listen"
  /\ env = [t \in Tools |-> "ok"]
  /\ LoopInit
  /\ AggIdle
  /\ DetailIdle
  /\ PrintIdle
  /\ RunsIdle
  /\ EmitIdle
  /\ StopIdle
  /\ configPort \in ConfigPorts
  /\ actualPort = configPort
  /\ retries = 0
  /\ attempts = <<>>
  /\ listenResult = [how |-> "trying", port |-> 0]
  /\ HookIdle

\* a loop that goes round once more
CanRetry_m(n) == n <= maxRetries

\* dashboard.ts: startServerWithRetry: while (retries < maxRetries)
CanRetry(n) == n < maxRetries

\* dashboard.ts: startServerWithRetry: one turn of the loop, from the listen
\* call to the next listen call, the return or the throw
ListenAttempt ==
  /\ listenResult.how = "trying"
  /\ \E out \in ListenOutcomes(actualPort) :
       /\ attempts' = Append(attempts, [port |-> actualPort, outcome |-> out])
       /\ CASE out = "ok" ->
                 /\ listenResult' = [how |-> "returned", port |-> actualPort]
                 /\ UNCHANGED <<retries, actualPort>>
            [] out = "EADDRINUSE" ->
                 /\ retries' = retries + 1
                 /\ actualPort' = actualPort + 1
                 /\ listenResult' = IF CanRetry(retries + 1) THEN listenResult
                                    ELSE [how |-> "exhausted", port |-> 0]
            [] OTHER ->
                 /\ listenResult' = [how |-> "rethrown", port |-> 0]
                 /\ UNCHANGED <<retries, actualPort>>
  /\ UNCHANGED <<outsideListen, configPort>>

NextListen == ListenAttempt

SpecListen == InitListen /\ [][NextListen]_vars

\* ========================================================================
\* The UI hook useWebSocket: connect, the handlers of the socket, the
\* reconnect timeout, disconnect
\* ========================================================================
MaxSockets == 4

InitHook ==
  /\ mode = "hook"
  /\ env = [t \in Tools |-> "ok"]
  /\ LoopInit
  /\ AggIdle
  /\ DetailIdle
  /\ PrintIdle
  /\ RunsIdle
  /\ EmitIdle
  /\ StopIdle
  /\ ListenIdle
  /\ HookIdle

\* useAnalysisData.ts: connect: nothing when the socket kept is open,
\* else new WebSocket(url), whose handlers are set and which is kept
connect ==
  IF wsRef /= 0 /\ sockets[wsRef].readyState = "OPEN"
  THEN UNCHANGED <<sockets, wsRef>>
  ELSE /\ Len(sockets) < MaxSockets
       /\ sockets' = Append(sockets, [readyState |-> "CONNECTING",
                                      afterDisconnect |-> disconnected])
       /\ wsRef' = Len(sockets) + 1

\* useAnalysisData.ts: useEffect: connect() when the component is mounted
HookMounts ==
  /\ sockets = <<>>
  /\ ~disconnected
  /\ connect
  /\ UNCHANGED <<outsideHook, reconnectTimeoutRef, hookTimers, timeoutsSet, disconnected>>

\* useAnalysisData.ts: the component calls the reconnect function the hook
\* returns, which is connect
HookReconnect ==
  /\ sockets /= <<>>
  /\ ~disconnected
  /\ connect
  /\ UNCHANGED <<outsideHook, reconnectTimeoutRef, hookTimers, timeoutsSet, disconnected>>

\* useAnalysisData.ts: useEffect when url changes: the cleanup of the old
\* effect calls disconnect(), the new effect calls connect()
UrlChanges ==
  /\ sockets /= <<>>
  /\ ~disconnected
  /\ Len(sockets) < MaxSockets
  /\ hookTimers' = ClearTimeout(hookTimers, reconnectTimeoutRef)
  /\ sockets' = Append(IF wsRef /= 0 /\ sockets[wsRef].readyState /= "CLOSED"
                       THEN [sockets EXCEPT ![wsRef].readyState = "CLOSING"]
                       ELSE sockets,
                       [readyState |-> "CONNECTING", afterDisconnect |-> FALSE])
  /\ wsRef' = Len(sockets) + 1
  /\ UNCHANGED <<outsideHook, reconnectTimeoutRef, timeoutsSet, disconnected>>

\* the connection is established: ws.onopen
WsOpens(i) ==
  /\ i \in 1..Len(sockets)
  /\ sockets[i].readyState = "CONNECTING"
  /\ sockets' = [sockets EXCEPT ![i].readyState = "OPEN"]
  /\ UNCHANGED <<outsideHook, wsRef, reconnectTimeoutRef, hookTimers, timeoutsSet, disconnected>>

\* the close event of a socket, whether the connection failed, the server
\* went away or close() was called: ws.onclose sets the reconnect timeout
WsCloseEvent(i) ==
  /\ i \in 1..Len(sockets)
  /\ sockets[i].readyState /= "CLOSED"
  /\ sockets' = [sockets EXCEPT ![i].readyState = "CLOSED"]
  /\ timeoutsSet' = timeoutsSet + 1
  /\ hookTimers' = hookTimers \cup {timeoutsSet + 1}
  /\ reconnectTimeoutRef' = timeoutsSet + 1
  /\ UNCHANGED <<outsideHook, wsRef, disconnected>>

\* the reconnect timeout fires: connect()
ReconnectTimeout(h) ==
  /\ h \in hookTimers
  /\ hookTimers' = hookTimers \ {h}
  /\ connect
  /\ UNCHANGED <<outsideHook, reconnectTimeoutRef, timeoutsSet, disconnected>>

\* useAnalysisData.ts: disconnect, called by the cleanup of useEffect when
\* the component is unmounted: clearTimeout of the timeout kept, close() of
\* the socket kept
disconnect ==
  /\ sockets /= <<>>
  /\ ~disconnected
  /\ hookTimers' = ClearTimeout(hookTimers, reconnectTimeoutRef)
  /\ sockets' = IF wsRef /= 0 /\ sockets[wsRef].readyState /= "CLOSED"
                THEN [sockets EXCEPT ![wsRef].readyState = "CLOSING"]
                ELSE sockets
  /\ wsRef' = 0
  /\ disconnected' = TRUE
  /\ UNCHANGED <<outsideHook, reconnectTimeoutRef, timeoutsSet>>

NextHook ==
  \/ HookMounts
  \/ HookReconnect
  \/ UrlChanges
  \/ \E i \in 1..MaxSockets : WsOpens(i)
  \/ \E i \in 1..MaxSockets : WsCloseEvent(i)
  \/ \E h \in 1..MaxSockets : ReconnectTimeout(h)
  \/ disconnect

SpecHook == InitHook /\ [][NextHook]_vars

\* ========================================================================
\* Properties of the refresh loop
\* ========================================================================

\* C1: at most one refresh cycle is active at any time, under
\* WatchManager.runAnalysis and under the dashboard's watcher callback alike.
C1_SingleActiveCycle == Cardinality(Active) <= 1

\* C2: a change that arrives while a cycle is active is remembered: once no
\* cycle is active the change has a cycle of its own or a timeout that will
\* start one (it is not lost), and the changes that arrived during one cycle
\* start at most one additional cycle.
C2_ChangeRemembered ==
  /\ (watching = "open" /\ pendingChange /\ Active = {}) => timers /= {}
  /\ \A c \in CycleIds : Cardinality({d \in CycleIds : c \in cyc[d].after}) <= 1

\* the timeouts and cycles of the burst numbered b
TimersOf(b) == {tm \in timers : tm.burst = b}
CyclesOf(b) == {c \in CycleIds : cyc[c].trigger = "timer" /\ cyc[c].burst = b}

\* C3: a burst of change events, each within the debounce window of the one
\* before, triggers exactly one cycle: never two; one as soon as its timeout
\* has run, unless stop() cleared the timeout or it ran into a running
\* analysis; and that cycle starts only when the debounce delay has passed
\* since the last event of the burst.
C3_DebouncedBurst ==
  /\ [](\A b \in 1..burst :
          /\ Cardinality(CyclesOf(b)) <= 1
          /\ Cardinality(TimersOf(b)) + Cardinality(CyclesOf(b)) = 1 \/ b \in voided)
  /\ [][\A c \in CycleIds :
          (cyc[c].phase = "new" /\ cyc'[c].phase = "running" /\ cyc'[c].trigger = "timer")
            => now - lastEventAt >= DebounceDelay(mode)]_vars

\* C3 happens: a burst of more than one event, the last one later than the
\* first, has started its cycle
C3_Witness ==
  \E c \in CycleIds :
    /\ cyc[c].trigger = "timer" /\ cyc[c].many
    /\ lastEventAt > 0 /\ burst = cyc[c].burst
    /\ cyc[c].startedAt >= lastEventAt + DebounceDelay(mode)

\* the Snapshot a reader of the latest Snapshot gets: latestResults.current
\* of the dashboard, the aggregated report of the WatchManager's server
LatestSnapshot == IF mode = "dashboard" THEN latest
                  ELSE IF reports["aggregated"] = Absent THEN Null ELSE reports["aggregated"]

\* C4: the latest Snapshot is never replaced by one whose generatedAt is older.
C4_MonotonePublication ==
  [][(LatestSnapshot /= Null /\ LatestSnapshot' /= Null)
       => LatestSnapshot'.generatedAt >= LatestSnapshot.generatedAt]_vars

\* C4 happens: the latest Snapshot has replaced an older one
C4_Witness ==
  /\ LatestSnapshot /= Null
  /\ \E o \in outputs : o.generatedAt < LatestSnapshot.generatedAt

\* C5: a request for the latest Snapshot that arrives during a cycle, when a
\* Snapshot has been published before, is not held back until the cycle ends.
C5_AnsweredDuringCycle == \A w \in waiting : ~w.stale

\* C6: every Snapshot a reader has (the latest reference, the body of an
\* answer to GET /api/stats, a pushed message) is the whole result of one
\* aggregateReports call.
C6_WholeSnapshots ==
  /\ latest /= Null => latest \in outputs
  /\ (lastResp /= Null /\ lastResp.status = 200) => lastResp.body \in outputs
  /\ \A k \in Clients : socks[k].got /= Null => socks[k].got \in outputs

\* C6 happens: a request and a pushed message have delivered Snapshots and
\* a second Snapshot has been published over the first
C6_Witness ==
  /\ lastResp /= Null /\ lastResp.status = 200
  /\ \E k \in Clients : socks[k].got /= Null
  /\ Cardinality(outputs) >= 2 /\ latest /= Null

C10_LastKnownGood ==
  [][(lastResp' /= lastResp /\ lastResp'.afterFail)
       => (lastResp'.status /= 500 /\ lastResp'.body = published')]_vars

\* C11: every started refresh cycle eventually completes, also when an
\* external tool never returns: the invocation is cut off after a bounded
\* time and the cycle goes on to aggregation.
C11_CycleCompletes ==
  \A c \in CycleIds :
    (cyc[c].phase = "running") ~> (cyc[c].phase \in {"done", "failed"})

\* ========================================================================
\* Properties of the adapters and of aggregation
\* ========================================================================

\* the two Snapshots compared: every report present, the report of `without` absent
BothAggregated == aggOut.all /= Null /\ aggOut.part /= Null

\* the slices other than largestFiles: empty when their report is the one
\* absent, as with every report present otherwise
IssueSlicesDegrade(all, part, without) ==
  /\ part.complexFunctions = IF without = "eslint" THEN <<>> ELSE all.complexFunctions
  /\ part.maxLineOffenders = IF without = "eslint" THEN <<>> ELSE all.maxLineOffenders
  /\ part.cycles = IF without = "depcruise" THEN <<>> ELSE all.cycles
  /\ part.deadCode = IF without = "knip" THEN <<>> ELSE all.deadCode

SameSizes(e, f) ==
  /\ e.file = f.file /\ e.loc = f.loc /\ e.code = f.code
  /\ e.comment = f.comment /\ e.blank = f.blank /\ e.functions = f.functions

C8_FailureMarked ==
  \A t \in Tools :
    (aggRun[t] /= "none" /\ ToolFailed(t, aggRun[t]))
      => (aggIn[t] /= Absent /\ aggIn[t].error /\ IsEmptyReport(t, aggIn[t]))

\* C12: aggregating the same reports over the same source files twice gives
\* two Snapshots equal in every field except generatedAt, the functions,
\* avgFunctionLength and maxFunctionLength of largestFiles included.
C12_Deterministic ==
  [][(aggOut.all /= Null /\ aggOut'.all /= Null /\ aggIn' = aggIn /\ aggFns' = aggFns)
       => [aggOut'.all EXCEPT !.generatedAt = 0] = [aggOut.all EXCEPT !.generatedAt = 0]]_vars

\* ========================================================================
\* Properties of the file-detail query and of file matching
\* ========================================================================

\* the segments of a path: the non-empty pieces between the slashes
Segments(p) ==
  LET parts == Split(p)
  IN FilterSeq(parts, {i \in 1..Len(parts) : parts[i] /= <<>>})

\* the number of whole segments two paths have in common at their ends
CommonSuffixLen(p, q) ==
  LET a == Segments(p)
      b == Segments(q)
  IN Max({n \in 0..Min({Len(a), Len(b)}) :
            SubSeq(a, Len(a) - n + 1, Len(a)) = SubSeq(b, Len(b) - n + 1, Len(b))})

\* one path is a suffix of the other made of whole segments, at least one
SegmentMatch(p, q) ==
  /\ CommonSuffixLen(p, q) >= 1
  /\ CommonSuffixLen(p, q) = Min({Len(Segments(p)), Len(Segments(q))})

\* the Snapshot the file-detail handler of the server looks into
DetailStats == IF mode = "watch" THEN reports["aggregated"] ELSE latest

\* C13: file matching compares whole path segments: the entry and the
\* issues a file-detail answer gives for a file match it by a suffix of whole
\* segments, and a largestFiles entry has a complexity only from a lint
\* result whose path matches it so; a is never matched with ba.
C13_WholeSegments ==
  /\ (lastDetail /= Null /\ lastDetail.status = 200) =>
       /\ SegmentMatch(lastDetail.body.metrics.file, lastDetail.file)
       /\ \A slice \in {lastDetail.body.complexityIssues, lastDetail.body.lineViolations,
                         lastDetail.body.deadCodeIssues} :
            \A i \in 1..Len(slice) : SegmentMatch(slice[i].file, lastDetail.file)
  /\ reports["aggregated"] /= Absent =>
       \A i \in 1..Len(reports["aggregated"].largestFiles) :
         reports["aggregated"].largestFiles[i].complexity /= None =>
           \E k \in 1..Len(reports["eslint"].results) :
             SegmentMatch(reports["eslint"].results[k].filePath,
                          reports["aggregated"].largestFiles[i].file)

\* the candidate a file reference resolves to: the one equal to it, else the
\* only one with the longest common segment suffix, else none (the empty path)
Resolve(ref, cands) ==
  LET score(i) == IF SegmentMatch(cands[i], ref) THEN CommonSuffixLen(cands[i], ref) ELSE 0
      best == Max({score(i) : i \in 1..Len(cands)} \cup {0})
      winners == {i \in 1..Len(cands) : score(i) = best}
  IN IF \E i \in 1..Len(cands) : cands[i] = ref THEN ref
     ELSE IF best >= 1 /\ Cardinality(winners) = 1
     THEN cands[CHOOSE i \in winners : TRUE]
     ELSE <<>>

\* C14: the file-detail handler that looks a file up in the Snapshot answers
\* with the candidate equal to the reference if there is one, whatever the
\* order of the candidates, else with the only candidate of the longest
\* common segment suffix, and with no match when several tie.  Stated for
\* the Snapshots in which every candidate the handler takes for a match is
\* one by whole segments.
C14_ExactThenLongest ==
  [][(/\ lastDetail' /= lastDetail
      /\ lastDetail'.file /= <<>>
      /\ DetailStats /= Null /\ DetailStats /= Absent
      /\ ~(mode = "dashboard" /\ lastDetail'.status = 500)
      /\ \A i \in 1..Len(DetailStats.largestFiles) :
           FileMatches(DetailStats.largestFiles[i].file, lastDetail'.file)
             => SegmentMatch(DetailStats.largestFiles[i].file, lastDetail'.file))
     => LET cands == [i \in 1..Len(DetailStats.largestFiles) |->
                        DetailStats.largestFiles[i].file]
            chosen == IF lastDetail'.status = 200 THEN lastDetail'.body.metrics.file
                      ELSE <<>>
        IN chosen = Resolve(lastDetail'.file, cands)]_vars

\* C20: the answer given when no Snapshot has been produced yet and the
\* answer given when the file is not in the Snapshot never have the same
\* status and error.
C20_NotReadyIsNotNotFound ==
  \A x, y \in answers :
    (x.cond = "notReady" /\ y.cond = "notFound")
      => (x.status /= y.status \/ x.error /= y.error)

\* ========================================================================
\* Properties of the slices of a Snapshot
\* ========================================================================

\* a path relative to the analysis root
IsRelative(p) == p /= <<>> /\ Head(p) /= "/"

\* C15: every file reference of a Snapshot, in largestFiles,
\* complexFunctions, maxLineOffenders, cycles and deadCode, is a path
\* relative to the analysis root, also when the tool reported the file by
\* its absolute path.
C15_CanonicalPaths ==
  aggOut.all /= Null =>
    LET snap == aggOut.all IN
      /\ \A slice \in {snap.largestFiles, snap.complexFunctions,
                        snap.maxLineOffenders, snap.deadCode} :
           \A i \in 1..Len(slice) : IsRelative(slice[i].file)
      /\ \A i \in 1..Len(snap.cycles) :
           \A k \in 1..Len(snap.cycles[i].paths) : IsRelative(snap.cycles[i].paths[k])

\* the files that are members of a cycle
Members(cycle) == {cycle[k] : k \in 1..Len(cycle)}

\* C16: the cycles slice has exactly one entry for each distinct set of
\* member files among the cycles of the violations, whatever the order or
\* rotation of the members and with or without the first file repeated at
\* the end.
C16_OneEntryPerMemberSet ==
  aggOut.all /= Null =>
    LET vs == aggIn["depcruise"].violations
        sets == {Members(vs[i].cycle) : i \in {j \in 1..Len(vs) : vs[j].cycle /= <<>>}}
        cycles == aggOut.all.cycles
    IN /\ Len(cycles) = Cardinality(sets)
       /\ {Members(cycles[i].paths) : i \in 1..Len(cycles)} = sets

\* C17: largestFiles is ordered by line count, non-increasing, has
\* min(50, number of files) entries, each one a file of the report, and no
\* file left out has more lines than a file included.
C17_LargestFiles ==
  aggOut.all /= Null =>
    LET fs == aggIn["cloc"].files
        lf == aggOut.all.largestFiles
        names == {lf[i].file : i \in 1..Len(lf)}
    IN /\ Len(lf) = Min({TOP_N, Len(fs)})
       /\ \A i \in 1..(Len(lf) - 1) : lf[i].loc >= lf[i + 1].loc
       /\ Cardinality(names) = Len(lf)
       /\ \A i \in 1..Len(lf) :
            \E k \in 1..Len(fs) : fs[k].file = lf[i].file /\ fs[k].loc = lf[i].loc
       /\ \A k \in 1..Len(fs) :
            fs[k].file \notin names => \A i \in 1..Len(lf) : fs[k].loc <= lf[i].loc

\* C17 happens: a report of more than 50 files, not in the order of their
\* line counts, has been cut to the 50 largest
C17_Witness ==
  /\ aggOut.all /= Null
  /\ Len(aggIn["cloc"].files) > TOP_N
  /\ aggIn["cloc"].files[1].loc < aggIn["cloc"].files[2].loc
  /\ Len(aggOut.all.largestFiles) = TOP_N
  /\ aggOut.all.largestFiles[1].loc > aggOut.all.largestFiles[TOP_N].loc

\* C18: complexFunctions is ordered descending by metric and, among equal
\* metrics, ascending by file name: of two adjacent entries the earlier has
\* the larger metric, or the same metric and a file name that does not sort
\* after the later one's.  Stated here for the adjacent entries that both
\* have a parsed metric, in lists with or without entries that have none.
C18_ComplexOrder ==
  aggOut.all /= Null =>
    LET cf == aggOut.all.complexFunctions
    IN \A i \in 1..(Len(cf) - 1) :
         (cf[i].metric /= None /\ cf[i + 1].metric /= None) =>
           \/ cf[i].metric > cf[i + 1].metric
           \/ /\ cf[i].metric = cf[i + 1].metric
              /\ localeCompare(cf[i].file, cf[i + 1].file) <= 0

\* C19: the composition slice counts the whole line-count report:
\* totalFiles is the number of its files and totalLines, codeLines,
\* commentLines and blankLines are the sums over all of them, also when
\* there are more than 50.
C19_CompositionOfWholeReport ==
  (aggOut.all /= Null /\ Len(aggIn["cloc"].files) > 0) =>
    LET fs == aggIn["cloc"].files
        c == aggOut.all.composition
    IN /\ c /= Null
       /\ c.totalFiles = Len(fs)
       /\ c.totalLines = SeqSum([i \in 1..Len(fs) |-> fs[i].loc])
       /\ c.codeLines = SeqSum([i \in 1..Len(fs) |-> fs[i].code])
       /\ c.commentLines = SeqSum([i \in 1..Len(fs) |-> fs[i].comment])
       /\ c.blankLines = SeqSum([i \in 1..Len(fs) |-> fs[i].blank])

\* C21: every subscriber that is connected holds the latest published
\* Snapshot: it was sent the Snapshot at the publication if it was connected
\* then, and it was sent the latest Snapshot on connecting otherwise.
C21_SubscribersHoldLatest ==
  \A k \in Clients :
    (socks[k].open /\ published /= Null) => socks[k].got = published

\* C22: in the dashboard the first cycle is the one started by
\* startDashboardServer itself, asked for by no file event, and no cycle
\* starts before it; while that first cycle has not ended there is no latest
\* Snapshot to return.
C22_FirstCycleUnconditional ==
  mode = "dashboard" =>
    /\ Started /= {} => (cyc[1].trigger = "startup" /\ cyc[1].burst = 0)
    /\ (Started = {} \/ cyc[1].phase = "running") => latest = Null

\* C23: when the print command has ended, its exit code is 1 if the
\* analysis failed (no Snapshot was printed) or some file offender is above
\* maxLines, some function offender above maxLinesPerFunction or some
\* complex function above complexityThreshold, and 0 otherwise.
ThresholdExceeded ==
  \/ \E i \in 1..Len(printStats.maxLineOffenders) :
       LET o == printStats.maxLineOffenders[i] IN
         \/ o.kind = "file" /\ o.value > printConfig.maxLines
         \/ o.kind = "function" /\ o.value > printConfig.maxLinesPerFunction
  \/ \E i \in 1..Len(printStats.complexFunctions) :
       LET f == printStats.complexFunctions[i] IN
         f.metric /= None /\ f.metric > printConfig.complexityThreshold
C23_ExitCode ==
  printPhase = "exited" =>
    exitCode = IF printStats = Null \/ ThresholdExceeded THEN 1 ELSE 0

\* a run that ended with 1 only because a function is longer than allowed
C23_Witness ==
  /\ printPhase = "exited"
  /\ exitCode = 1
  /\ printStats /= Null
  /\ \A i \in 1..Len(printStats.maxLineOffenders) :
       printStats.maxLineOffenders[i].kind = "function"
  /\ \A i \in 1..Len(printStats.complexFunctions) :
       printStats.complexFunctions[i].metric = None

\* C24: the report an adapter run leaves agrees with what the tool did: when
\* the tool ran and its output was converted, the report is that converted
\* output, and the report carries the failure marker only when the tool
\* failed.
C24_ReportMatchesOutcome ==
  \A t \in Tools :
    aggRun[t] /= "none" =>
      /\ aggRun[t] = "ok" => aggIn[t] = Report(GoodData(t), FALSE)
      /\ aggIn[t].error => ToolFailed(t, aggRun[t])

\* C25: the Snapshot a runAnalysis call returns is aggregated only from
\* reports written by the adapters of that same call.
C25_OwnReportsOnly ==
  \A r \in 1..Len(runs) :
    runs[r].phase = "done" => \A t \in Tools : runs[r].read[t] = r

\* C26: under WatchManager, whenever no cycle is in progress isRunning is
\* false, whether the last cycle succeeded or failed.
C26_FlagReleased ==
  mode = "watch" => (Active = {} => ~isRunning)

\* a cycle has failed, none is in progress, and the flag is down
C26_Witness ==
  /\ mode = "watch"
  /\ Active = {}
  /\ \E c \in CycleIds : cyc[c].phase = "failed"
  /\ ~isRunning

\* C27: every cycle of WatchManager that has ended emitted analysis:start
\* once, first, and after it exactly one of analysis:complete and
\* analysis:error, also when a listener threw.
EventsOf(log, ev) == {i \in 1..Len(log) : log[i].event = ev}
C27_OneTerminalEvent ==
  \A n \in 1..Len(emitted) :
    (n < Len(emitted) \/ ~isRunning) =>
      /\ EventsOf(emitted[n], "analysis:start") = {1}
      /\ Cardinality(EventsOf(emitted[n], "analysis:complete")
                     \cup EventsOf(emitted[n], "analysis:error")) = 1

\* C28: once a dashboard server has been stopped, by its signal handler or
\* by handleStopDashboard or handleDashboard, no analysis cycle is started
\* for it any more.
C28_NoCycleAfterStop ==
  \A i \in 1..Len(dash) :
    dash[i].stopped /= "no" => dash[i].cycles = dash[i].atStop

\* C29: startServerWithRetry makes at most 10 listen calls, on config.port
\* and the ports after it in order, and goes on only after EADDRINUSE; it
\* returns the port of the call that succeeded, rethrows after a call that
\* failed otherwise, and throws its own error after 10 calls that found the
\* address in use.
C29_ListenAttempts ==
  LET n == Len(attempts) IN
    /\ n <= 10
    /\ \A i \in 1..n : attempts[i].port = configPort + (i - 1)
    /\ \A i \in 1..(n - 1) : attempts[i].outcome = "EADDRINUSE"
    /\ listenResult.how = "trying" =>
         (n < 10 /\ (n > 0 => attempts[n].outcome = "EADDRINUSE"))
    /\ listenResult.how = "returned" =>
         (attempts[n].outcome = "ok" /\ listenResult.port = attempts[n].port)
    /\ listenResult.how = "rethrown" => attempts[n].outcome = "other"
    /\ listenResult.how = "exhausted" => (n = 10 /\ attempts[n].outcome = "EADDRINUSE")

\* ten ports in use
C29_Witness ==
  /\ listenResult.how = "exhausted"
  /\ Len(attempts) = 10
  /\ attempts[10].port = configPort + 9

\* C30: after disconnect() no reconnect timeout is pending and the hook
\* creates no further WebSocket.
C30_NoReconnectAfterDisconnect ==
  disconnected =>
    /\ hookTimers = {}
    /\ \A i \in 1..Len(sockets) : ~sockets[i].afterDisconnect

====
